---- MODULE Spec2Model ----
(***************************************************************************)
(* Loading of HESMA JSON documents (hesmapy): the base document class      *)
(* HesmaBaseJSONFile (json_base.py), shared by RTLightcurve and RTSpectrum, *)
(* and the Hydro1D class (hydro/hydro1d.py), which carries its own copy of  *)
(* the same constructor, normaliser, validator and model selector.          *)
(*                                                                         *)
(* A state is one file on disk together with the Python object built from   *)
(* it.  Construct is the whole of __init__; CallGetModel is one call of     *)
(* _get_model on the finished object.                                       *)
(***************************************************************************)
EXTENDS Integers, Sequences, FiniteSets, TLC

\* ------------------------------------------------------------------------
\* Bounds of the input space
\* ------------------------------------------------------------------------

\* longest top-level array all of whose elements are single-key objects
MaxItems == 4

\* longest top-level array holding a scalar, an empty or a two-key object
MaxMixed == 2

\* ------------------------------------------------------------------------
\* Parsed JSON values.  A Python dict is a sequence of <<key, value>> pairs
\* with pairwise distinct keys, in insertion order.
\* ------------------------------------------------------------------------

Obj(entries) == [tag |-> "object", items |-> entries]

Arr(elems) == [tag |-> "array", items |-> elems]

\* the value of an attribute that was never assigned
Unset == [tag |-> "unset", items |-> <<>>]

IsDict(v) == v.tag = "object"

IsList(v) == v.tag = "array"

\* list(d.keys())
DictKeys(entries) == [i \in 1..Len(entries) |-> entries[i][1]]

\* key in d
DictHas(entries, k) == \E i \in 1..Len(entries) : entries[i][1] = k

\* d[key], for a key that is in d
DictGet(entries, k) ==
    entries[CHOOSE i \in 1..Len(entries) : entries[i][1] = k][2]

\* d[key] = value: replaces the value in place, or appends a new pair
DictSet(entries, k, v) ==
    IF DictHas(entries, k)
    THEN [i \in 1..Len(entries) |->
            IF entries[i][1] = k THEN <<k, v>> ELSE entries[i]]
    ELSE Append(entries, <<k, v>>)

\* ------------------------------------------------------------------------
\* Model bodies and the kinds' schemas (constants.py)
\* ------------------------------------------------------------------------

Kinds == {"hydro1d", "rt_lightcurve", "rt_spectrum"}

\* a model body that is a JSON object: whether it has a string "name", the
\* rows of "data" (<<>> when there are none), and the "units" object and
\* "derived_data" array, each Unset when the key is absent.  A row is a
\* record whose domain is the set of keys the row carries.
Body(hasName, rows, units, derived) ==
    [tag |-> "object", hasName |-> hasName, rows |-> rows, units |-> units,
     derived |-> derived]

\* a row that carries the required keys of every kind's schema
WellFormedRow(i) ==
    [radius |-> i, density |-> 1, time |-> i, magnitude |-> i,
     viewing_angle |-> 1, band |-> "B", wavelength |-> <<i>>, flux |-> <<i>>]

\* a body with a string name and two well-formed rows
FullBody == Body(TRUE, <<WellFormedRow(1), WellFormedRow(2)>>, Unset, Unset)

\* the body of {"invalid": "data"}: a string, not an object
StrBody ==
    [tag |-> "string", hasName |-> FALSE, rows |-> <<>>, units |-> Unset,
     derived |-> Unset]

Bodies ==
    LET
        \* a body with a string name and a single well-formed row
        OneRowBody == Body(TRUE, <<WellFormedRow(1)>>, Unset, Unset)
    IN
    {FullBody, OneRowBody, StrBody}

\* a JSON value of "type": "number"; a row holds a number or a string there
IsNumber(v) ==
    LET
        \* the JSON texts of the numbers a row may hold
        NumberTexts == {ToString(n) : n \in (0 - 99)..99}
    IN
    ToString(v) \in NumberTexts

\* jsonschema.validate(body, schema) does not raise ValidationError:
\* "type": "object", "required": ["name", "data"], "data" has minItems
\* rows, every row has the required keys, and the value of every key among
\* the number properties is a number
SchemaValidates(body, k) ==
    LET
        \* "minItems" of the schema's "data" array
        MinItems(schema) == IF schema = "rt_spectrum" THEN 1 ELSE 2

        \* "required" of the items of the schema's "data" array
        RequiredFields(schema) ==
            IF schema = "hydro1d" THEN {"radius", "density", "time"}
            ELSE IF schema = "rt_lightcurve"
            THEN {"magnitude", "time", "viewing_angle", "band"}
            ELSE {"time", "wavelength", "flux"}

        \* the keys of "properties" of the items of "data" that are strings and
        \* have {"type": "number"}.  The hydro1d schema has one more entry of that
        \* type whose key is the compiled pattern HYDRO1D_ABUNDANCE_REGEX: a key
        \* that is no string equals no key of a row, so the entry applies to none.
        NumberProperties(schema) ==
            IF schema = "hydro1d"
            THEN {"radius", "density", "pressure", "temperature", "mass", "velocity",
                  "time"}
            ELSE IF schema = "rt_lightcurve"
            THEN {"time", "magnitude", "e_magnitude", "viewing_angle"}
            ELSE {"time"}
    IN
    /\ body.tag = "object"
    /\ body.hasName
    /\ Len(body.rows) >= MinItems(k)
    /\ \A i \in 1..Len(body.rows) : RequiredFields(k) \subseteq DOMAIN body.rows[i]
    /\ \A i \in 1..Len(body.rows) :
          \A key \in DOMAIN body.rows[i] \cap NumberProperties(k) :
             IsNumber(body.rows[i][key])

\* ------------------------------------------------------------------------
\* Exceptions
\* ------------------------------------------------------------------------

NoError == [class |-> "none", msg |-> ""]

InvalidJSONFile == [class |-> "IOError", msg |-> "Invalid JSON file"]

\* self.data[model] while self.data is still a list
ListIndexError ==
    [class |-> "TypeError", msg |-> "list indices must be integers"]

InvalidModelIndex == [class |-> "AssertionError", msg |-> "Invalid model index"]

InvalidModelName == [class |-> "AssertionError", msg |-> "Invalid model name"]

InvalidModelType == [class |-> "TypeError", msg |-> "Invalid model type"]

\* models[i] with i outside -len..len-1
ListRangeError == [class |-> "IndexError", msg |-> "list index out of range"]

\* ------------------------------------------------------------------------
\* _load_data
\* ------------------------------------------------------------------------

\* file content that is not JSON
MalformedText == [syntax |-> "malformed", value |-> Unset]

\* file content that json.load parses to v
JsonText(v) == [syntax |-> "json", value |-> v]

\* no file at path
NoFile == [syntax |-> "nofile", value |-> Unset]

\* _load_data that swallows the decode error and returns None
LoadData_ReturnsNone(t) == [err |-> NoError, data |-> t.value]

LoadData(t) ==
    LET
        \* open(self.path) when there is no file
        FileNotFoundError ==
            [class |-> "FileNotFoundError", msg |-> "No such file or directory"]
    IN
    IF t.syntax = "json"
    THEN [err |-> NoError, data |-> t.value]
    ELSE IF t = NoFile THEN [err |-> FileNotFoundError, data |-> Unset]
    ELSE [err |-> InvalidJSONFile, data |-> Unset]

\* ------------------------------------------------------------------------
\* _multiple_models
\* ------------------------------------------------------------------------

\* f"{modelname}_{i}", i the 0-based position
Rename(name, i) == name \o "_" \o ToString(i)

\* the first loop: collect the first key of every item, stop at the first
\* item that is not a dict.  n is the number of items already visited.
RECURSIVE CollectNames(_, _, _)
CollectNames(elems, n, names) ==
    LET
        \* list(item.keys())[0] on an empty dict
        EmptyKeysError == [class |-> "IndexError", msg |-> "list index out of range"]
    IN
    IF n = Len(elems)
    THEN [err |-> NoError, broke |-> FALSE, models |-> names]
    ELSE LET item == elems[n + 1] IN
         IF IsDict(item)
         THEN IF Len(item.items) = 0
              THEN [err |-> EmptyKeysError, broke |-> FALSE, models |-> names]
              ELSE CollectNames(elems, n + 1,
                                Append(names, DictKeys(item.items)[1]))
         ELSE [err |-> NoError, broke |-> TRUE, models |-> names]

\* the for-else branch: one dict for all items, renaming duplicate keys.
\* n is the 0-based index i of the item about to be inserted.
RECURSIVE MergeItems(_, _, _, _)
MergeItems(elems, n, names, d) ==
    IF n = Len(elems)
    THEN [models |-> names, data |-> d]
    ELSE LET key == names[n + 1]
             modelname == IF DictHas(d, key) THEN Rename(key, n) ELSE key
         IN  MergeItems(elems, n + 1,
                        [names EXCEPT ![n + 1] = modelname],
                        DictSet(d, modelname, DictGet(elems[n + 1].items, key)))

\* the if / elif / else of _multiple_models on self.models = [] and
\* self.valid = True: the attributes it leaves, or the exception it raises
AssignModels(d) ==
    IF IsDict(d)
    THEN [err |-> NoError, models |-> DictKeys(d.items), data |-> d,
          valid |-> TRUE]
    ELSE IF IsList(d)
    THEN LET c == CollectNames(d.items, 0, <<>>) IN
         IF c.err # NoError
         THEN [err |-> c.err, models |-> c.models, data |-> d, valid |-> TRUE]
         ELSE IF c.broke
         THEN [err |-> NoError, models |-> c.models, data |-> d,
               valid |-> FALSE]
         ELSE LET m == MergeItems(d.items, 0, c.models, <<>>) IN
              [err |-> NoError, models |-> m.models, data |-> Obj(m.data),
               valid |-> TRUE]
    ELSE [err |-> NoError, models |-> <<>>, data |-> d, valid |-> FALSE]

\* _multiple_models returning len(self.models) > 0
MultipleModels_AnyModel(d) ==
    LET a == AssignModels(d) IN
    [err |-> a.err, models |-> a.models, data |-> a.data, valid |-> a.valid,
     multi |-> Len(a.models) > 0]

\* _multiple_models: the attributes it leaves and its return value (multi)
MultipleModels(d) ==
    LET a == AssignModels(d) IN
    [err |-> a.err, models |-> a.models, data |-> a.data, valid |-> a.valid,
     multi |-> Len(a.models) > 1]

\* ------------------------------------------------------------------------
\* _validate_data
\* ------------------------------------------------------------------------

\* the loop over self.models, from the n-th model on
RECURSIVE ValidateFrom(_, _, _, _)
ValidateFrom(ms, d, k, n) ==
    IF n > Len(ms)
    THEN [err |-> NoError, valid |-> TRUE]
    ELSE IF ~IsDict(d)
    THEN [err |-> ListIndexError, valid |-> FALSE]
    ELSE IF SchemaValidates(DictGet(d.items, ms[n]), k)
    THEN ValidateFrom(ms, d, k, n + 1)
    ELSE [err |-> NoError, valid |-> FALSE]

\* _validate_data whose "return True" sits inside the loop
ValidateData_FirstOnly(ms, d, k) ==
    IF Len(ms) = 0 THEN [err |-> NoError, valid |-> TRUE]
    ELSE IF ~IsDict(d) THEN [err |-> ListIndexError, valid |-> FALSE]
    ELSE [err |-> NoError,
          valid |-> SchemaValidates(DictGet(d.items, ms[1]), k)]

ValidateData(ms, d, k) == ValidateFrom(ms, d, k, 1)

\* ------------------------------------------------------------------------
\* __init__
\* ------------------------------------------------------------------------

\* the object's attributes when __init__ returns, or the exception it raises.
\* self.valid is assigned last, from _validate_data alone.
NewDocument(t, k) ==
    LET
        NoObject(e) ==
            [err |-> e, data |-> Unset, models |-> <<>>, multi_model |-> FALSE,
             valid |-> FALSE]
    IN
    LET l == LoadData(t) IN
    IF l.err # NoError THEN NoObject(l.err)
    ELSE LET mm == MultipleModels(l.data) IN
    IF mm.err # NoError THEN NoObject(mm.err)
    ELSE LET v == ValidateData(mm.models, mm.data, k) IN
    IF v.err # NoError THEN NoObject(v.err)
    ELSE [err |-> NoError, data |-> mm.data, models |-> mm.models,
          multi_model |-> mm.multi, valid |-> v.valid]

\* ------------------------------------------------------------------------
\* _get_model
\* ------------------------------------------------------------------------

NoneSel == [type |-> "none", i |-> 0, s |-> ""]

IntSel(n) == [type |-> "int", i |-> n, s |-> ""]

StrSel(name) == [type |-> "str", i |-> 0, s |-> name]

\* a selector such as 1.2
FloatSel == [type |-> "float", i |-> 0, s |-> ""]

\* isinstance(model, int): bool is a subclass of int
IsInstanceInt(sel) == sel.type \in {"int", "bool"}

Returned(name) == [err |-> NoError, name |-> name]

Raised(e) == [err |-> e, name |-> ""]

\* ms[i] with Python's list indexing, negative positions counting from the end
ListIndex(ms, i) ==
    IF 0 <= i /\ i < Len(ms) THEN Returned(ms[i + 1])
    ELSE IF i < 0 /\ 0 - i <= Len(ms) THEN Returned(ms[Len(ms) + i + 1])
    ELSE Raised(ListRangeError)

InList(ms, name) == \E j \in 1..Len(ms) : ms[j] = name

\* _get_model asserting model <= len(self.models)
GetModel_OffByOne(ms, sel) ==
    IF sel.type = "none" THEN ListIndex(ms, 0)
    ELSE IF IsInstanceInt(sel)
    THEN IF sel.i <= Len(ms) THEN ListIndex(ms, sel.i)
         ELSE Raised(InvalidModelIndex)
    ELSE IF sel.type = "str"
    THEN IF InList(ms, sel.s) THEN Returned(sel.s)
         ELSE Raised(InvalidModelName)
    ELSE Raised(InvalidModelType)

\* _get_model whose two assertions carry the same message
GetModel_SameAssert(ms, sel) ==
    IF sel.type = "none" THEN ListIndex(ms, 0)
    ELSE IF IsInstanceInt(sel)
    THEN IF sel.i < Len(ms) THEN ListIndex(ms, sel.i)
         ELSE Raised(InvalidModelIndex)
    ELSE IF sel.type = "str"
    THEN IF InList(ms, sel.s) THEN Returned(sel.s)
         ELSE Raised(InvalidModelIndex)
    ELSE Raised(InvalidModelType)

\* _get_model whose default is the last model
GetModel_DefaultLast(ms, sel) ==
    IF sel.type = "none" THEN ListIndex(ms, 0 - 1)
    ELSE IF IsInstanceInt(sel)
    THEN IF sel.i < Len(ms) THEN ListIndex(ms, sel.i)
         ELSE Raised(InvalidModelIndex)
    ELSE IF sel.type = "str"
    THEN IF InList(ms, sel.s) THEN Returned(sel.s)
         ELSE Raised(InvalidModelName)
    ELSE Raised(InvalidModelType)

GetModel(ms, sel) ==
    IF sel.type = "none" THEN ListIndex(ms, 0)
    ELSE IF IsInstanceInt(sel)
    THEN IF sel.i < Len(ms) THEN ListIndex(ms, sel.i)
         ELSE Raised(InvalidModelIndex)
    ELSE IF sel.type = "str"
    THEN IF InList(ms, sel.s) THEN Returned(sel.s)
         ELSE Raised(InvalidModelName)
    ELSE Raised(InvalidModelType)

\* ------------------------------------------------------------------------
\* Values the accessors build
\* ------------------------------------------------------------------------

\* Python's None
PyNone == [tag |-> "None", items |-> <<>>]

NotImplementedData ==
    [class |-> "NotImplementedError",
     msg |-> "Getting data of invalid data not implemented"]

NotImplementedUnits ==
    [class |-> "NotImplementedError",
     msg |-> "Getting units of invalid data not implemented"]

\* d[key] for a key that d does not have
KeyError(key) == [class |-> "KeyError", msg |-> key]

\* pd.DataFrame(dict of lists) with lists of different lengths
ArraysLengthError ==
    [class |-> "ValueError", msg |-> "All arrays must be of the same length"]

\* what an accessor leaves: the exception or the value, and self.data
Result(e, v, d) == [err |-> e, val |-> v, data |-> d]

\* an accessor's outcome: the exception raised, or the value returned
Outcome(e, v) == [err |-> e, val |-> v]

\* self.data[model]
ModelBody(d, name) == DictGet(d.items, name)

\* list.sort() on a list of distinct numbers
RECURSIVE SortedNumbers(_)
SortedNumbers(S) ==
    IF S = {} THEN <<>>
    ELSE LET lo == CHOOSE x \in S : \A y \in S : x <= y
         IN  <<lo>> \o SortedNumbers(S \ {lo})

\* ord() of the one-letter band names
Ord(b) == IF b = "B" THEN 66 ELSE IF b = "U" THEN 85 ELSE 86

\* [d[field] for d in rows]: the values, or the KeyError of the first row
\* without the key
HasField(rows, field) == \A i \in 1..Len(rows) : field \in DOMAIN rows[i]

FieldValues(rows, field) == {rows[i][field] : i \in 1..Len(rows)}

\* pd.DataFrame(list of dicts): the union of the rows' keys as columns (their
\* order is not modelled), the positions 0..n-1 as index; a cell is NaN
\* where the row's record lacks the column
DataFrame(rows) ==
    [columns |-> UNION {DOMAIN rows[i] : i \in 1..Len(rows)},
     index |-> [i \in 1..Len(rows) |-> i - 1],
     records |-> rows]

\* the positions of the rows whose cell in column field equals value
RECURSIVE Matching(_, _, _, _)
Matching(rows, field, value, n) ==
    IF n > Len(rows) THEN <<>>
    ELSE (IF field \in DOMAIN rows[n] /\ rows[n][field] = value
          THEN <<n>> ELSE <<>>) \o Matching(rows, field, value, n + 1)

\* the filter written with >= instead of ==
FilterFrame_AtLeast(df, field, value) ==
    LET at == {i \in 1..Len(df.records) :
                 field \in DOMAIN df.records[i] /\ df.records[i][field] >= value}
        keep == SortedNumbers(at)
    IN  [columns |-> df.columns,
         index |-> [i \in 1..Len(keep) |-> df.index[keep[i]]],
         records |-> [i \in 1..Len(keep) |-> df.records[keep[i]]]]

\* df[df[field] == value]
FilterFrame(df, field, value) ==
    LET keep == Matching(df.records, field, value, 1) IN
    [columns |-> df.columns,
     index |-> [i \in 1..Len(keep) |-> df.index[keep[i]]],
     records |-> [i \in 1..Len(keep) |-> df.records[keep[i]]]]

\* pd.DataFrame(rows), optionally restricted to the rows with column == value
FrameOf(rows, field, filtered, value, d) ==
    LET df == DataFrame(rows) IN
    IF ~filtered THEN Result(NoError, df, d)
    ELSE IF field \notin df.columns THEN Result(KeyError(field), <<>>, d)
    ELSE Result(NoError, FilterFrame(df, field, value), d)

\* the unique_* body without set() and sort(): the values in row order
UniqueOf_RowOrder(d, ms, v, sel, field) ==
    IF ~v THEN Result(NoError, <<>>, d)
    ELSE LET g == GetModel(ms, sel) IN
    IF g.err # NoError THEN Result(g.err, <<>>, d)
    ELSE LET rows == ModelBody(d, g.name).rows IN
    IF ~HasField(rows, field) THEN Result(KeyError(field), <<>>, d)
    ELSE Result(NoError, [i \in 1..Len(rows) |-> rows[i][field]], d)

\* list(set([d[field] for d in self.data[model]["data"]])), sorted
UniqueOf(d, ms, v, sel, field) ==
    LET
        \* list.sort() on a list of distinct band names
        SortedBands(S) ==
            LET codes == SortedNumbers({Ord(b) : b \in S})
            IN  [i \in 1..Len(codes) |-> CHOOSE b \in S : Ord(b) = codes[i]]
    IN
    IF ~v THEN Result(NoError, <<>>, d)
    ELSE LET g == GetModel(ms, sel) IN
    IF g.err # NoError THEN Result(g.err, <<>>, d)
    ELSE LET rows == ModelBody(d, g.name).rows IN
    IF ~HasField(rows, field) THEN Result(KeyError(field), <<>>, d)
    ELSE Result(NoError,
                IF field = "band" THEN SortedBands(FieldValues(rows, field))
                ELSE SortedNumbers(FieldValues(rows, field)), d)

\* ------------------------------------------------------------------------
\* Hydro1D, RTLightcurve and RTSpectrum accessors
\* ------------------------------------------------------------------------

\* Hydro1D.get_unique_times, RTSpectrum.get_unique_times
GetUniqueTimes(d, ms, v, sel) == UniqueOf(d, ms, v, sel, "time")

\* RTLightcurve.get_unique_viewing_angles
GetUniqueViewingAngles(d, ms, v, sel) ==
    UniqueOf(d, ms, v, sel, "viewing_angle")

\* RTLightcurve.get_unique_bands
GetUniqueBands(d, ms, v, sel) == UniqueOf(d, ms, v, sel, "band")

\* get_data resolving the model before it looks at self.valid
GetData_ResolveFirst(d, ms, v, sel, field, filtered, value) ==
    LET g == GetModel(ms, sel) IN
    IF g.err # NoError THEN Result(g.err, <<>>, d)
    ELSE IF ~v THEN Result(NotImplementedData, <<>>, d)
    ELSE FrameOf(ModelBody(d, g.name).rows, field, filtered, value, d)

\* Hydro1D.get_data (field "time"), RTLightcurve.get_data (field
\* "viewing_angle")
GetData(d, ms, v, sel, field, filtered, value) ==
    IF ~v THEN Result(NotImplementedData, <<>>, d)
    ELSE LET g == GetModel(ms, sel) IN
    IF g.err # NoError THEN Result(g.err, <<>>, d)
    ELSE FrameOf(ModelBody(d, g.name).rows, field, filtered, value, d)

\* RTLightcurve.get_derived_data
GetDerivedData(d, ms, v, sel, filtered, value) ==
    IF ~v THEN Result(NotImplementedData, <<>>, d)
    ELSE LET g == GetModel(ms, sel) IN
    IF g.err # NoError THEN Result(g.err, <<>>, d)
    ELSE LET derived == ModelBody(d, g.name).derived IN
    IF derived = Unset THEN Result(KeyError("derived_data"), <<>>, d)
    ELSE FrameOf(derived.items, "viewing_angle", filtered, value, d)

\* the sentinel written out in hydro1d.py and lightcurves.py
ArbUnits == "(arb. units)"

\* constants.ARB_UNIT_STRING, imported by spectra.py
ARB_UNIT_STRING == "(arb. units)"

\* units[key] if key in units else default
UnitOr(units, key, default) ==
    IF DictHas(units.items, key) THEN DictGet(units.items, key) ELSE default

\* {field: units[field] if field in units else default for the fields}
RECURSIVE UnitsFor(_, _, _, _)
UnitsFor(units, fields, default, n) ==
    IF n > Len(fields) THEN <<>>
    ELSE <<<<fields[n], UnitOr(units, fields[n], default)>>>>
         \o UnitsFor(units, fields, default, n + 1)

\* get_units of Hydro1D and RTSpectrum: a fixed list of fields
FixedUnits(d, ms, v, sel, fields, default) ==
    IF ~v THEN Result(NotImplementedUnits, <<>>, d)
    ELSE LET g == GetModel(ms, sel) IN
    IF g.err # NoError THEN Result(g.err, <<>>, d)
    ELSE LET units == ModelBody(d, g.name).units IN
    IF units = Unset THEN Result(KeyError("units"), <<>>, d)
    ELSE Result(NoError, UnitsFor(units, fields, default, 1), d)

\* Hydro1D.get_units
Hydro1DGetUnits(d, ms, v, sel) ==
    FixedUnits(d, ms, v, sel,
               <<"radius", "density", "pressure", "temperature", "mass",
                 "velocity", "time">>, ArbUnits)

\* RTSpectrum.get_units
RTSpectrumGetUnits(d, ms, v, sel) ==
    FixedUnits(d, ms, v, sel, <<"time", "wavelength", "flux", "flux_err">>,
               ARB_UNIT_STRING)

\* the loop over unique_bands of RTLightcurve.get_units: stored is the
\* model's "units" dict, which the loop completes; units the dict returned
\* the loop storing the default for every band, also over a unit the model
\* has
RECURSIVE FillBands_Overwrite(_, _, _, _)
FillBands_Overwrite(bands, n, stored, units) ==
    IF n > Len(bands) THEN [stored |-> stored, units |-> units]
    ELSE LET band == bands[n]
             filled == DictSet(stored, band, ArbUnits)
         IN  FillBands_Overwrite(bands, n + 1, filled,
                                 DictSet(units, band, DictGet(filled, band)))

RECURSIVE FillBands(_, _, _, _)
FillBands(bands, n, stored, units) ==
    IF n > Len(bands) THEN [stored |-> stored, units |-> units]
    ELSE LET band == bands[n]
             filled == IF DictHas(stored, band) THEN stored
                       ELSE DictSet(stored, band, ArbUnits)
         IN  FillBands(bands, n + 1, filled,
                       DictSet(units, band, DictGet(filled, band)))

\* get_units whose loop reports a band only when its unit was already
\* stored ("else: units[band] = ..."), while still storing the default
RTLightcurveGetUnits_StaleUnits(d, ms, v, sel) ==
    IF ~v THEN Result(NotImplementedUnits, <<>>, d)
    ELSE LET g == GetModel(ms, sel) IN
    IF g.err # NoError THEN Result(g.err, <<>>, d)
    ELSE LET bands == GetUniqueBands(d, ms, v, StrSel(g.name)) IN
    IF bands.err # NoError THEN Result(bands.err, <<>>, d)
    ELSE LET body == ModelBody(d, g.name) IN
    IF body.units = Unset THEN Result(KeyError("units"), <<>>, d)
    ELSE LET known == SelectSeq(bands.val,
                                LAMBDA b : DictHas(body.units.items, b))
             f == FillBands(bands.val, 1, body.units.items, <<>>)
             r == FillBands(known, 1, body.units.items,
                            <<<<"time", UnitOr(body.units, "time", ArbUnits)>>>>)
         IN  Result(NoError, r.units,
                    Obj(DictSet(d.items, g.name,
                                [body EXCEPT !.units = Obj(f.stored)])))

\* RTLightcurve.get_units
RTLightcurveGetUnits(d, ms, v, sel) ==
    IF ~v THEN Result(NotImplementedUnits, <<>>, d)
    ELSE LET g == GetModel(ms, sel) IN
    IF g.err # NoError THEN Result(g.err, <<>>, d)
    ELSE LET bands == GetUniqueBands(d, ms, v, StrSel(g.name)) IN
    IF bands.err # NoError THEN Result(bands.err, <<>>, d)
    ELSE LET body == ModelBody(d, g.name) IN
    IF body.units = Unset THEN Result(KeyError("units"), <<>>, d)
    ELSE LET f == FillBands(bands.val, 1, body.units.items,
                            <<<<"time", UnitOr(body.units, "time", ArbUnits)>>>>)
         IN  Result(NoError, f.units,
                    Obj(DictSet(d.items, g.name,
                                [body EXCEPT !.units = Obj(f.stored)])))

\* the loop "for d in data: if d['time'] == time: return ..." 
RECURSIVE FirstAtTime(_, _, _)
FirstAtTime(rows, value, n) ==
    LET
        \* pd.DataFrame({"wavelength": ..., "flux": ..., "flux_err": ...}) of one row
        SpectrumFrame(row) ==
            LET columns == {"wavelength", "flux"} \cup ({"flux_err"} \cap DOMAIN row)
                size == Len(row.wavelength)
            IN  IF \E c \in columns : Len(row[c]) # size
                THEN Outcome(ArraysLengthError, <<>>)
                ELSE Outcome(NoError,
                             [columns |-> columns,
                              index |-> [i \in 1..size |-> i - 1],
                              records |-> [i \in 1..size |->
                                             [c \in columns |-> row[c][i]]]])
    IN
    IF n > Len(rows) THEN Outcome(NoError, PyNone)
    ELSE IF rows[n].time = value THEN SpectrumFrame(rows[n])
    ELSE FirstAtTime(rows, value, n + 1)

\* the loop "for time in self.get_unique_times(model): dfs.append(...)"
RECURSIVE FramesAt(_, _, _, _)
FramesAt(rows, times, n, dfs) ==
    IF n > Len(times) THEN Outcome(NoError, dfs)
    ELSE LET f == FirstAtTime(rows, times[n], 1) IN
         IF f.err # NoError THEN f
         ELSE FramesAt(rows, times, n + 1, Append(dfs, f.val))

\* RTSpectrum.get_data
RTSpectrumGetData(d, ms, v, sel, filtered, value) ==
    IF ~v THEN Result(NotImplementedData, <<>>, d)
    ELSE LET g == GetModel(ms, sel) IN
    IF g.err # NoError THEN Result(g.err, <<>>, d)
    ELSE LET rows == ModelBody(d, g.name).rows IN
    IF filtered
    THEN LET f == FirstAtTime(rows, value, 1) IN Result(f.err, f.val, d)
    ELSE LET times == GetUniqueTimes(d, ms, v, StrSel(g.name)) IN
         IF times.err # NoError THEN Result(times.err, <<>>, d)
         ELSE LET fs == FramesAt(rows, times.val, 1, <<>>)
              IN  Result(fs.err, fs.val, d)

\* ------------------------------------------------------------------------
\* get_abundance_data (hydro/utils.py)
\* ------------------------------------------------------------------------

Uppercase ==
    {"A", "B", "C", "D", "E", "F", "G", "H", "I", "J", "K", "L", "M", "N",
     "O", "P", "Q", "R", "S", "T", "U", "V", "W", "X", "Y", "Z"}

Lowercase ==
    {"a", "b", "c", "d", "e", "f", "g", "h", "i", "j", "k", "l", "m", "n",
     "o", "p", "q", "r", "s", "t", "u", "v", "w", "x", "y", "z"}

\* the characters of a column label
Spelling(label) ==
    CASE label = "xHe4" -> <<"x", "H", "e", "4">>
      [] label = "xC12" -> <<"x", "C", "1", "2">>
      [] label = "xNi56" -> <<"x", "N", "i", "5", "6">>
      [] label = "mass" -> <<"m", "a", "s", "s">>
      [] label = "radius" -> <<"r", "a", "d", "i", "u", "s">>
      [] label = "density" -> <<"d", "e", "n", "s", "i", "t", "y">>
      [] label = "time" -> <<"t", "i", "m", "e">>
      [] label = "pressure" -> <<"p", "r", "e", "s", "s", "u", "r", "e">>

\* re.search(r"\bx" + letters + r"[0-9]{0,3}\b", s), letters being one of
\* the given sequences of character classes
SearchAbundance(s, letters) ==
    LET
        Digits == {"0", "1", "2", "3", "4", "5", "6", "7", "8", "9"}

        \* \w at position i of s; no character outside 1..Len(s)
        WordAt(str, i) ==
            i \in 1..Len(str) /\ str[i] \in Uppercase \cup Lowercase \cup Digits \cup {"_"}

        \* \b between s[i] and s[i + 1]
        WordBoundary(str, i) == WordAt(str, i) # WordAt(str, i + 1)
    IN
    \E p \in 1..Len(s), l \in letters, k \in 0..3 :
        LET e == p + Len(l) + k IN
        /\ e <= Len(s)
        /\ WordBoundary(s, p - 1)
        /\ s[p] = "x"
        /\ \A j \in 1..Len(l) : s[p + j] \in l[j]
        /\ \A j \in 1..k : s[p + Len(l) + j] \in Digits
        /\ WordBoundary(s, e)

\* constants.HYDRO1D_ABUNDANCE_REGEX: \bx[a-zA-Z]{1,2}[0-9]{0,3}\b
HYDRO1D_ABUNDANCE_REGEX(label) ==
    LET letter == Uppercase \cup Lowercase
    IN  SearchAbundance(Spelling(label), {<<letter>>, <<letter, letter>>})

\* the regex of get_abundance_data: \bx[A-Z][a-z][0-9]{0,3}\b
AbundanceFilterRegex(label) ==
    SearchAbundance(Spelling(label), {<<Uppercase, Lowercase>>})

\* DataFrame.empty: no columns or no rows
FrameEmpty(df) == df.columns = {} \/ Len(df.records) = 0

\* the masses of the cells when there is no mass column, in units of
\* 4/3 pi: density * np.diff(np.insert(radius, 0, 0)) ** 3
CellMasses(records) ==
    [i \in 1..Len(records) |->
       LET dr == records[i].radius
                 - (IF i = 1 THEN 0 ELSE records[i - 1].radius)
       IN  records[i].density * dr * dr * dr]

RECURSIVE WeightedSum(_, _, _, _)
WeightedSum(records, label, masses, n) ==
    IF n > Len(records) THEN 0
    ELSE records[n][label] * masses[n]
         + WeightedSum(records, label, masses, n + 1)

\* get_abundance_data(data, max_abundances): the outcomes it may have
GetAbundanceData(df, max_abundances) ==
    LET
        \* the order in which a row of a file lists its keys, hence the order of
        \* the columns of the frame built from the rows
        KeyOrder == <<"radius", "density", "mass", "time", "xHe4", "xC12", "xNi56">>

        \* the labels among columns, in the order of the frame
        InFrameOrder(columns) == SelectSeq(KeyOrder, LAMBDA c : c \in columns)

        \* df[labels]: the columns labels, in that order
        SelectColumns(frame, labels) ==
            [columns |-> {labels[i] : i \in 1..Len(labels)},
             order |-> labels,
             index |-> frame.index,
             records |-> [i \in 1..Len(frame.records) |->
                            [c \in {labels[j] : j \in 1..Len(labels)} |->
                               frame.records[i][c]]]]

        \* the orders sort_values(ascending=False) may leave labels in: totals
        \* descending, labels of equal total in any order
        DescendingOrders(labels, total) ==
            {o \in [1..Cardinality(labels) -> labels] :
                /\ \A i, j \in DOMAIN o : i # j => o[i] # o[j]
                /\ \A i \in DOMAIN o : i + 1 \in DOMAIN o => total[o[i]] >= total[o[i + 1]]}

        \* the first n of a sequence: Series.head(n) for n >= 0
        FirstN(seq, n) == SubSeq(seq, 1, IF n < Len(seq) THEN n ELSE Len(seq))
    IN
    LET labels == {c \in df.columns : AbundanceFilterRegex(c)}
        abundances == SelectColumns(df, InFrameOrder(labels))
    IN  IF FrameEmpty(abundances) THEN {Outcome(NoError, abundances)}
        ELSE IF "mass" \notin df.columns /\ "radius" \notin df.columns
        THEN {Outcome(KeyError("radius"), <<>>)}
        ELSE IF "mass" \notin df.columns /\ "density" \notin df.columns
        THEN {Outcome(KeyError("density"), <<>>)}
        ELSE LET masses == IF "mass" \in df.columns
                           THEN [i \in 1..Len(df.records) |-> df.records[i].mass]
                           ELSE CellMasses(df.records)
                 total_mass == [c \in labels |->
                                  WeightedSum(df.records, c, masses, 1)]
             IN  {Outcome(NoError,
                          SelectColumns(abundances, FirstN(o, max_abundances))) :
                     o \in DescendingOrders(labels, total_mass)}

\* ------------------------------------------------------------------------
\* normalize_hydro1d_data (hydro/utils.py)
\* ------------------------------------------------------------------------

\* float values that are no number
NaN == [float |-> "nan"]

PosInf == [float |-> "inf"]

NegInf == [float |-> "-inf"]

RECURSIVE Gcd(_, _)
Gcd(a, b) == IF b = 0 THEN a ELSE Gcd(b, a % b)

\* the float v / norm, kept exact: a fraction in lowest terms with a
\* positive denominator; division by 0.0 gives nan or an infinity
Quotient(v, norm) ==
    LET
        Abs(n) == IF n < 0 THEN 0 - n ELSE n
    IN
    IF norm = 0
    THEN (IF v = 0 THEN NaN ELSE IF v > 0 THEN PosInf ELSE NegInf)
    ELSE LET g == Gcd(Abs(v), Abs(norm))
             sign == IF norm < 0 THEN 0 - 1 ELSE 1
         IN  [num |-> sign * (v \div g), den |-> sign * (norm \div g)]

\* the smallest value of the column instead of the largest
ColumnMax_Min(records, column) ==
    IF Len(records) = 0 THEN NaN
    ELSE LET values == {records[i][column] : i \in 1..Len(records)}
         IN  CHOOSE m \in values : \A v \in values : m <= v

\* data[column].max(): nan for a column without rows
ColumnMax(records, column) ==
    IF Len(records) = 0 THEN NaN
    ELSE LET values == {records[i][column] : i \in 1..Len(records)}
         IN  CHOOSE m \in values : \A v \in values : v <= m

\* data[column] /= norm
DivideColumn(records, column, norm) ==
    [i \in 1..Len(records) |->
       [records[i] EXCEPT ![column] = Quotient(records[i][column], norm)]]

\* the columns normalize_hydro1d_data looks for, in its order
NormalizedColumns ==
    <<"density", "pressure", "temperature", "mass", "velocity">>

\* the "if column in data" blocks from the n-th on: the frame and the
\* normalization_factors so far
RECURSIVE NormalizeFrom(_, _, _)
NormalizeFrom(df, factors, n) ==
    IF n > Len(NormalizedColumns) THEN [data |-> df, factors |-> factors]
    ELSE LET column == NormalizedColumns[n] IN
         IF column \notin df.columns THEN NormalizeFrom(df, factors, n + 1)
         ELSE LET norm == ColumnMax(df.records, column) IN
              NormalizeFrom(
                  [df EXCEPT !.records = DivideColumn(df.records, column, norm)],
                  DictSet(factors, column, norm), n + 1)

\* normalize_hydro1d_data(data): the tuple (data, normalization_factors)
NormalizeHydro1DData(df) == NormalizeFrom(df, <<>>, 1)

\* ------------------------------------------------------------------------
\* Inputs
\* ------------------------------------------------------------------------

Keys == {"m", "m_2"}

\* sequences over S of length lo..hi
SeqsOf(S, lo, hi) == UNION {[1..n -> S] : n \in lo..hi}

Selectors ==
    LET
        \* the selectors True and False; as integers they are 1 and 0
        BoolSel(b) == [type |-> "bool", i |-> IF b THEN 1 ELSE 0, s |-> ""]
    IN
    {NoneSel, FloatSel, BoolSel(TRUE), BoolSel(FALSE)}
    \cup {IntSel(n) : n \in (0 - 1)..(MaxItems + 1)}
    \cup {StrSel(name) : name \in Keys \cup {"m_1", "zz"}}

\* ------------------------------------------------------------------------
\* Inputs of the accessors
\* ------------------------------------------------------------------------

MaxRows == 3

\* a row of a hydro1d model at time t
HydroRow(i, t) == [radius |-> i, density |-> 1, time |-> t]

\* a row of a lightcurve model seen from viewing angle va[1] in band va[2]
LightcurveRow(i, vb) ==
    [time |-> i, magnitude |-> i, viewing_angle |-> vb[1], band |-> vb[2]]

AccessSelectors ==
    {NoneSel, FloatSel, IntSel(0), IntSel(1), IntSel(2),
     StrSel("m"), StrSel("m_1"), StrSel("zz")}

\* the time or viewing angle asked for: <<filtered, value>>
Filters == {<<FALSE, 0>>, <<TRUE, 1>>, <<TRUE, 2>>, <<TRUE, 3>>}

\* ------------------------------------------------------------------------
\* Inputs of get_abundance_data
\* ------------------------------------------------------------------------

MaxAbundances == 3

\* ------------------------------------------------------------------------
\* Inputs of normalize_hydro1d_data
\* ------------------------------------------------------------------------

\* ------------------------------------------------------------------------
\* The writers' checks of nested input (utils/writer_utils.py)
\* ------------------------------------------------------------------------



PyList(items) == [type |-> "list", columns |-> {}, items |-> items]

PyInt == [type |-> "int", columns |-> {}, items |-> <<>>]

\* all(isinstance(d, t) for d in items)
AllOfType(items, t) == \A i \in 1..Len(items) : items[i].type = t

NumModelsError ==
    [class |-> "ValueError",
     msg |-> "data must have the same length as the number of models"]

NestedTypeError ==
    [class |-> "TypeError",
     msg |-> "data must be a DataFrame, a list of DataFrames, or a list of lists of DataFrames"]

\* _check_data_dataframe
CheckDataDataframe(data, columns) ==
    LET
        DataFrameTypeError ==
            [class |-> "TypeError",
             msg |-> "data must be a DataFrame or a list of DataFrames"]

        MissingColumnsError ==
            [class |-> "ValueError", msg |-> "DataFrame must contain the columns"]
    IN
    LET items == IF data.type = "DataFrame" THEN <<data>> ELSE data.items IN
    IF data.type \notin {"DataFrame", "list"} THEN Outcome(DataFrameTypeError, <<>>)
    ELSE IF ~AllOfType(items, "DataFrame") THEN Outcome(DataFrameTypeError, <<>>)
    ELSE IF \E i \in 1..Len(items) : ~(columns \subseteq items[i].columns)
    THEN Outcome(MissingColumnsError, <<>>)
    ELSE Outcome(NoError, PyList(items))

\* _check_data_dict
CheckDataDict(data) ==
    LET
        DictTypeError ==
            [class |-> "TypeError", msg |-> "data must be a dict or a list of dicts"]
    IN
    IF data.type = "dict" THEN Outcome(NoError, PyList(<<data>>))
    ELSE IF data.type # "list" THEN Outcome(DictTypeError, <<>>)
    ELSE IF ~AllOfType(data.items, "dict") THEN Outcome(DictTypeError, <<>>)
    ELSE Outcome(NoError, data)

\* [check(d) for d in data]: the list of the results, or the first exception
Collected(outcomes) ==
    IF \E i \in 1..Len(outcomes) : outcomes[i].err # NoError
    THEN LET first == CHOOSE i \in 1..Len(outcomes) :
                         /\ outcomes[i].err # NoError
                         /\ \A j \in 1..(i - 1) : outcomes[j].err = NoError
         IN  Outcome(outcomes[first].err, <<>>)
    ELSE Outcome(NoError, PyList([i \in 1..Len(outcomes) |-> outcomes[i].val]))

\* _check_nested_data_dataframe
CheckNestedDataDataframe(data, columns, num_models) ==
    IF data.type = "DataFrame"
    THEN Collected(<<CheckDataDataframe(data, columns)>>)
    ELSE IF data.type # "list" THEN Outcome(NestedTypeError, <<>>)
    ELSE IF AllOfType(data.items, "DataFrame")
    THEN IF num_models = 1 THEN Outcome(NoError, PyList(<<data>>))
         ELSE IF num_models > 1 /\ Len(data.items) = num_models
         THEN Collected([i \in 1..Len(data.items) |->
                           CheckDataDataframe(data.items[i], columns)])
         ELSE Outcome(NumModelsError, <<>>)
    ELSE IF AllOfType(data.items, "list")
    THEN IF num_models = 1 /\ Len(data.items) = 1
         THEN Collected(<<CheckDataDataframe(data.items[1], columns)>>)
         ELSE IF num_models > 1 /\ Len(data.items) = num_models
         THEN Collected([i \in 1..num_models |->
                           CheckDataDataframe(data.items[i], columns)])
         ELSE Outcome(NumModelsError, <<>>)
    ELSE Outcome(NoError, data)

\* _check_nested_data_dict
CheckNestedDataDict(data, num_models) ==
    IF data.type = "dict" THEN Collected(<<CheckDataDict(data)>>)
    ELSE IF data.type # "list" THEN Outcome(NestedTypeError, <<>>)
    ELSE IF AllOfType(data.items, "dict")
    THEN IF num_models = 1 THEN Outcome(NoError, PyList(<<data>>))
         ELSE IF num_models > 1 /\ Len(data.items) = num_models
         THEN Collected([i \in 1..Len(data.items) |->
                           CheckDataDict(data.items[i])])
         ELSE Outcome(NumModelsError, <<>>)
    ELSE IF AllOfType(data.items, "list")
    THEN IF num_models = 1 /\ Len(data.items) = 1
         THEN Collected(<<CheckDataDict(data.items[1])>>)
         ELSE IF num_models > 1 /\ Len(data.items) = num_models
         THEN Collected([i \in 1..num_models |->
                           CheckDataDict(data.items[i])])
         ELSE Outcome(NumModelsError, <<>>)
    ELSE Outcome(NoError, data)

\* ------------------------------------------------------------------------
\* Checks of the writers' arguments (utils/writer_utils.py)
\* ------------------------------------------------------------------------

\* a pd.DataFrame with the rows; every row has every column
Frame(rows) ==
    [type |-> "DataFrame",
     columns |-> UNION {DOMAIN rows[i] : i \in 1..Len(rows)},
     items |-> rows]

\* _check_model_names: the names as a sequence of strings
CheckModelNames(model_names, len_data) ==
    LET
        ModelNamesLengthError ==
            [class |-> "ValueError",
             msg |-> "model_names must be a list of strings with the same length as data"]

        ModelNamesTypeError ==
            [class |-> "TypeError", msg |-> "model_names must be a list of strings"]

        ModelNamesUniqueError ==
            [class |-> "ValueError", msg |-> "model_names must be unique"]

        \* f"model_{i}"
        DefaultModelName(i) == "model_" \o ToString(i)
    IN
    IF model_names = PyNone
    THEN Outcome(NoError, [i \in 1..len_data |-> DefaultModelName(i - 1)])
    ELSE IF model_names.type = "str"
    THEN IF len_data # 1 THEN Outcome(ModelNamesLengthError, <<>>)
         ELSE Outcome(NoError, <<model_names.items[1]>>)
    ELSE IF model_names.type = "list"
    THEN LET names == model_names.items IN
         IF ~AllOfType(names, "str") THEN Outcome(ModelNamesTypeError, <<>>)
         ELSE IF Len(names) # len_data THEN Outcome(ModelNamesLengthError, <<>>)
         ELSE IF \E i, j \in 1..Len(names) : i # j /\ names[i] = names[j]
         THEN Outcome(ModelNamesUniqueError, <<>>)
         ELSE Outcome(NoError, [i \in 1..Len(names) |-> names[i].items[1]])
    ELSE Outcome(NoError, model_names)

UnitsTypeError == [class |-> "TypeError", msg |-> "units must be a dict"]

\* isinstance(units, dict)
IsUnitsDict(units) == "tag" \in DOMAIN units /\ IsDict(units)

\* for col in columns: if col not in units.keys(): units[col] = ARB_UNIT_STRING
RECURSIVE FillUnits(_, _, _)
FillUnits(units, columns, n) ==
    IF n > Len(columns) THEN units
    ELSE FillUnits(IF DictHas(units, columns[n]) THEN units
                   ELSE DictSet(units, columns[n], ARB_UNIT_STRING),
                   columns, n + 1)

\* _check_rt_lightcurve_units(units, bands)
CheckRTLightcurveUnits(units, bands) ==
    IF units = PyNone
    THEN Outcome(NoError, Obj(FillUnits(<<>>, <<"time">> \o bands, 1)))
    ELSE IF ~IsUnitsDict(units) THEN Outcome(UnitsTypeError, <<>>)
    ELSE Outcome(NoError, Obj(FillUnits(units.items, <<"time">> \o bands, 1)))

\* _check_rt_spectrum_units(units)
CheckRTSpectrumUnits(units) ==
    LET columns == <<"wavelength", "flux", "flux_err", "time">> IN
    IF units = PyNone THEN Outcome(NoError, Obj(FillUnits(<<>>, columns, 1)))
    ELSE IF ~IsUnitsDict(units) THEN Outcome(UnitsTypeError, <<>>)
    ELSE Outcome(NoError, Obj(FillUnits(units.items, columns, 1)))

\* _check_rt_lightcurve_derived_data(derived_data, len_data): the tables
CheckRTLightcurveDerivedData(derived_data, len_data) ==
    LET
        DerivedTypeError ==
            [class |-> "TypeError",
             msg |-> "derived_data must be a DataFrame or a list of DataFrames"]

        DerivedLengthError ==
            [class |-> "ValueError",
             msg |-> "derived_data must have the same length as the number of models"]
    IN
    LET items == IF derived_data.type = "DataFrame" THEN <<derived_data>>
                 ELSE derived_data.items
    IN  IF derived_data.type \notin {"DataFrame", "list"}
        THEN Outcome(DerivedTypeError, <<>>)
        ELSE IF ~AllOfType(items, "DataFrame") THEN Outcome(DerivedTypeError, <<>>)
        ELSE IF Len(items) # len_data THEN Outcome(DerivedLengthError, <<>>)
        ELSE Outcome(NoError, items)

\* ------------------------------------------------------------------------
\* Conversion of tables to model bodies (utils/writer_utils.py)
\* ------------------------------------------------------------------------

\* the dict a converter builds for a model; a key it does not set is Unset
ModelDict(name, schema, sources, units, rows, derived_data) ==
    [name |-> name, schema |-> schema, sources |-> sources, units |-> units,
     data |-> rows, derived_data |-> derived_data]

\* {col: row[col] for col in columns if col in row} for every row of df
SchemeRows(df, columns) ==
    [i \in 1..Len(df.items) |->
       [c \in df.columns \cap DOMAIN df.items[i] \cap columns |-> df.items[i][c]]]

\* _rt_lightcurve_dataframe_to_json_dict
RTLightcurveDataframeToJsonDict(df, model, derived_data_df, sources, units) ==
    LET
        \* the local derived_data is read though it was never assigned
        UnboundLocalError ==
            [class |-> "UnboundLocalError",
             msg |-> "local variable 'derived_data' referenced before assignment"]
    IN
    IF derived_data_df = PyNone THEN Outcome(UnboundLocalError, <<>>)
    ELSE Outcome(NoError,
                 ModelDict(model, "RT_LIGHTCURVE_SCHEMA", sources, units,
                           SchemeRows(df, {"time", "magnitude", "e_magnitude",
                                           "band", "viewing_angle"}),
                           Arr(SchemeRows(derived_data_df,
                                          {"peak_mag", "peak_time", "rise_time",
                                           "decline_rate_15", "decline_rate_40",
                                           "band", "viewing_angle"}))))

\* ------------------------------------------------------------------------
\* Writers (writers/rt_lightcurve.py)
\* ------------------------------------------------------------------------

FileExistsError == [class |-> "IOError", msg |-> "File already exists"]

\* what a writer call leaves: the exception or none, the content of the
\* file at path, and the dict it dumped (Unset when it dumped none)
Written(e, file, document) == [err |-> e, file |-> file, document |-> document]

\* json.dump(document, f): the file holds the models' bodies
Dumped(document) ==
    LET
        \* the model body json.dump writes for the dict and json.load reads back;
        \* the accessors read neither "schema" nor "sources"
        BodyOf(model_dict) ==
            Body(TRUE, model_dict.data, model_dict.units, model_dict.derived_data)
    IN
    Written(NoError,
            JsonText(Obj([i \in 1..Len(document) |->
                            <<document[i][1], BodyOf(document[i][2])>>])),
            document)

\* for i, df in enumerate(data): document[model_names[i]] = converted;
\* the dict built, or the first exception
RECURSIVE ConvertLightcurves(_, _, _, _, _, _)
ConvertLightcurves(tables, names, derived, units, n, document) ==
    IF n > Len(tables) THEN Outcome(NoError, document)
    ELSE LET c == RTLightcurveDataframeToJsonDict(tables[n], names[n],
                                                  derived[n], Unset, units)
         IN  IF c.err # NoError THEN c
             ELSE ConvertLightcurves(tables, names, derived, units, n + 1,
                                     DictSet(document, names[n], c.val))

\* write_rt_lightcurve_from_dataframe(data, path, derived_data, model_names,
\* None, units, overwrite): the outcomes it may have on the file at path
WriteRTLightcurveFromDataframe(data, derived_data, model_names, units, overwrite, file) ==
    LET
        \* the sequences that list every element of S once: list(set(...))
        Orders(S) ==
            {o \in [1..Cardinality(S) -> S] : \A i, j \in DOMAIN o : i # j => o[i] # o[j]}
    IN
    IF file # NoFile /\ ~overwrite THEN {Written(FileExistsError, file, Unset)}
    ELSE LET checked == CheckDataDataframe(
                            data, {"magnitude", "time", "viewing_angle", "band"})
    IN  IF checked.err # NoError THEN {Written(checked.err, file, Unset)}
    ELSE LET tables == checked.val.items
             derived == IF derived_data # PyNone
                        THEN CheckRTLightcurveDerivedData(derived_data, Len(tables))
                        ELSE Outcome(NoError, [i \in 1..Len(tables) |-> PyNone])
    IN  IF derived.err # NoError THEN {Written(derived.err, file, Unset)}
    ELSE LET names == CheckModelNames(model_names, Len(tables)) IN
        IF names.err # NoError THEN {Written(names.err, file, Unset)}
    ELSE LET unique_bands ==
                 UNION {{tables[i].items[j].band : j \in 1..Len(tables[i].items)} :
                          i \in 1..Len(tables)}
    IN  {LET checked_units == CheckRTLightcurveUnits(units, bands) IN
         IF checked_units.err # NoError
         THEN Written(checked_units.err, file, Unset)
         ELSE LET converted == ConvertLightcurves(tables, names.val, derived.val,
                                                  checked_units.val, 1, <<>>)
              IN  IF converted.err # NoError
                  THEN Written(converted.err, file, Unset)
                  ELSE Dumped(converted.val) :
            bands \in Orders(unique_bands)}

\* ------------------------------------------------------------------------
\* Writers (writers/rt_spectrum.py)
\* ------------------------------------------------------------------------

\* the columns write_rt_spectrum_from_dataframe requires
SpectrumColumns == {"wavelength", "flux", "time"}

NotIterable == [class |-> "TypeError", msg |-> "not iterable"]

\* the first exception among the outcomes, or the list of their values
FirstFailure(outcomes) ==
    IF \E i \in 1..Len(outcomes) : outcomes[i].err # NoError
    THEN LET first == CHOOSE i \in 1..Len(outcomes) :
                         /\ outcomes[i].err # NoError
                         /\ \A j \in 1..(i - 1) : outcomes[j].err = NoError
         IN  Outcome(outcomes[first].err, <<>>)
    ELSE Outcome(NoError, [i \in 1..Len(outcomes) |-> outcomes[i].val])

\* _check_time(data)
CheckTime(data) ==
    LET
        \* df["time"] on a value that has no such item, iteration over an int
        NotSubscriptable == [class |-> "TypeError", msg |-> "not subscriptable"]

        SingleTimeError ==
            [class |-> "ValueError",
             msg |-> "Each DataFrame must contain a single unique time"]

        \* the body of "for df in d" in _check_time: the time of the table
        TimeOfTable(df) ==
            IF df.type # "DataFrame" THEN Outcome(NotSubscriptable, <<>>)
            ELSE IF "time" \notin df.columns THEN Outcome(KeyError("time"), <<>>)
            ELSE LET times == {df.items[i].time : i \in 1..Len(df.items)} IN
                 IF Cardinality(times) # 1 THEN Outcome(SingleTimeError, <<>>)
                 ELSE Outcome(NoError, CHOOSE t \in times : TRUE)

        \* the body of "for d in data" in _check_time: the times of the tables of a
        \* model.  Iterating over a table gives its column labels, over an int
        \* nothing.
        TimesOfModel(d) ==
            IF d.type = "list"
            THEN FirstFailure([j \in 1..Len(d.items) |-> TimeOfTable(d.items[j])])
            ELSE IF d.type = "DataFrame"
            THEN IF d.columns = {} THEN Outcome(NoError, <<>>)
                 ELSE Outcome(NotSubscriptable, <<>>)
            ELSE Outcome(NotIterable, <<>>)
    IN
    FirstFailure([i \in 1..Len(data.items) |-> TimesOfModel(data.items[i])])

\* _rt_spectrum_dataframe_to_json_dict(df, time, model, sources, units)
RTSpectrumDataframeToJsonDict(df, time, model, sources, units) ==
    LET
        \* df[column].to_list()
        ColumnList(table, column) == [i \in 1..Len(table.items) |-> table.items[i][column]]

        \* the row _rt_spectrum_dataframe_to_json_dict builds of a table
        SpectrumRowOf(table, t) ==
            IF "wavelength" \notin table.columns THEN Outcome(KeyError("wavelength"), <<>>)
            ELSE IF "flux" \notin table.columns THEN Outcome(KeyError("flux"), <<>>)
            ELSE Outcome(NoError,
                         [c \in {"wavelength", "flux", "time"}
                                \cup ({"flux_err"} \cap table.columns) |->
                            IF c = "time" THEN t ELSE ColumnList(table, c)])
    IN
    LET rows == FirstFailure([i \in 1..Len(df) |-> SpectrumRowOf(df[i], time[i])])
    IN  IF rows.err # NoError THEN rows
        ELSE Outcome(NoError,
                     ModelDict(model, "RT_SPECTRUM_SCHEMA", sources, units,
                               rows.val, Unset))

\* for i, model in enumerate(model_names): document[model] = converted;
\* the dict built, or the first exception
RECURSIVE ConvertSpectra(_, _, _, _, _, _)
ConvertSpectra(data, time, names, units, n, document) ==
    IF n > Len(names) THEN Outcome(NoError, document)
    ELSE IF n > Len(data) THEN Outcome(ListRangeError, <<>>)
    ELSE LET c == RTSpectrumDataframeToJsonDict(data[n].items, time[n],
                                                names[n], Unset, units)
         IN  IF c.err # NoError THEN c
             ELSE ConvertSpectra(data, time, names, units, n + 1,
                                 DictSet(document, names[n], c.val))

\* write_rt_spectrum_from_dataframe(data, num_models, path, model_names,
\* None, units, overwrite): what it leaves of the file at path
WriteRTSpectrumFromDataframe(data, num_models, model_names, units, overwrite, file) ==
    IF file # NoFile /\ ~overwrite THEN Written(FileExistsError, file, Unset)
    ELSE LET checked == CheckNestedDataDataframe(data, SpectrumColumns, num_models)
    IN  IF checked.err # NoError THEN Written(checked.err, file, Unset)
    ELSE LET time == CheckTime(checked.val) IN
        IF time.err # NoError THEN Written(time.err, file, Unset)
    ELSE LET names == CheckModelNames(model_names, num_models) IN
        IF names.err # NoError THEN Written(names.err, file, Unset)
    ELSE LET checked_units == CheckRTSpectrumUnits(units) IN
        IF checked_units.err # NoError THEN Written(checked_units.err, file, Unset)
    ELSE LET converted == ConvertSpectra(checked.val.items, time.val, names.val,
                                         checked_units.val, 1, <<>>)
         IN  IF converted.err # NoError
             THEN Written(converted.err, file, Unset)
             ELSE Dumped(converted.val)

\* ------------------------------------------------------------------------
\* Writers from dicts and arrays (writers/rt_lightcurve.py,
\* writers/rt_spectrum.py)
\* ------------------------------------------------------------------------

\* a np.ndarray, a float
NdArray(values) == [type |-> "ndarray", columns |-> {}, items |-> values]

ConstructorError ==
    [class |-> "ValueError", msg |-> "DataFrame constructor not properly called!"]

\* pd.DataFrame(d)
FrameOfDict(d) ==
    IF d.type # "dict" THEN Outcome(ConstructorError, <<>>)
    ELSE IF \E i \in 1..Len(d.items) : DOMAIN d.items[i] # d.columns
    THEN Outcome(ArraysLengthError, <<>>)
    ELSE Outcome(NoError,
                 [type |-> "DataFrame", columns |-> d.columns, items |-> d.items])

\* write_rt_lightcurve_from_dict(data, path, derived_data, model_names, None,
\* units, overwrite)
WriteRTLightcurveFromDict(data, derived_data, model_names, units, overwrite, file) ==
    LET
        DerivedDictTypeError ==
            [class |-> "TypeError",
             msg |-> "Derived data must be a dictionary or a list of dictionaries"]
    IN
    LET checked == CheckDataDict(data) IN
    IF checked.err # NoError THEN {Written(checked.err, file, Unset)}
    ELSE LET data_dfs == FirstFailure([i \in 1..Len(checked.val.items) |->
                                         FrameOfDict(checked.val.items[i])])
    IN  IF data_dfs.err # NoError THEN {Written(data_dfs.err, file, Unset)}
    ELSE IF derived_data = PyNone
    THEN WriteRTLightcurveFromDataframe(PyList(data_dfs.val), PyNone,
                                        model_names, units, overwrite, file)
    ELSE LET derived == CheckDataDict(derived_data) IN
        IF derived.err # NoError THEN {Written(DerivedDictTypeError, file, Unset)}
    ELSE LET derived_data_dfs ==
                 FirstFailure([i \in 1..Len(derived.val.items) |->
                                 FrameOfDict(derived.val.items[i])])
    IN  IF derived_data_dfs.err # NoError
        THEN {Written(derived_data_dfs.err, file, Unset)}
        ELSE WriteRTLightcurveFromDataframe(
                 PyList(data_dfs.val), PyList(derived_data_dfs.val),
                 model_names, units, overwrite, file)

\* _check_numpy_array: the arrays
CheckNumpyArray(array) ==
    LET
        NumpyTypeError ==
            [class |-> "TypeError",
             msg |-> "data must be a np.ndarray or a list of np.ndarray"]
    IN
    IF array.type = "ndarray" THEN Outcome(NoError, <<array>>)
    ELSE IF array.type # "list" THEN Outcome(NumpyTypeError, <<>>)
    ELSE IF ~AllOfType(array.items, "ndarray") THEN Outcome(NumpyTypeError, <<>>)
    ELSE Outcome(NoError, array.items)

DataArraysLengthError ==
    [class |-> "ValueError", msg |-> "All data arrays must have the same length"]

\* pd.DataFrame(dict of arrays), columns a sequence of <<label, array>>
FrameOfArrays(columns) ==
    LET n == Len(columns[1][2].items)
        labels == {columns[c][1] : c \in 1..Len(columns)}
        array(label) ==
            columns[CHOOSE c \in 1..Len(columns) : columns[c][1] = label][2]
    IN  IF \E c \in 1..Len(columns) : Len(columns[c][2].items) # n
        THEN Outcome(ArraysLengthError, <<>>)
        ELSE Outcome(NoError,
                     [type |-> "DataFrame", columns |-> labels,
                      items |-> [i \in 1..n |->
                                   [label \in labels |-> array(label).items[i]]]])

\* write_rt_lightcurve_from_numpy(time, magnitude, band, viewing_angle, path,
\* peak_mag=peak_mag, model_names, units, overwrite), the other arrays None
WriteRTLightcurveFromNumpy(time, magnitude, band, viewing_angle, peak_mag, model_names, units, overwrite, file) ==
    LET
        \* len(time) != len(magnitude) != len(band) != len(viewing_angle): a chain
        \* of comparisons is the conjunction of its links
        LengthsDiffer(times, magnitudes, bands, viewing_angles) ==
            /\ Len(times) # Len(magnitudes)
            /\ Len(magnitudes) # Len(bands)
            /\ Len(bands) # Len(viewing_angles)

        \* the body of "for i, t in enumerate(time)": the table of model i
        LightcurveFrameOfArrays(times, magnitudes, bands, viewing_angles, i) ==
            IF i > Len(magnitudes) \/ i > Len(bands) \/ i > Len(viewing_angles)
            THEN Outcome(ListRangeError, <<>>)
            ELSE FrameOfArrays(<<<<"time", times[i]>>, <<"magnitude", magnitudes[i]>>,
                                 <<"band", bands[i]>>,
                                 <<"viewing_angle", viewing_angles[i]>>>>)
    IN
    LET arrays == FirstFailure(
                      <<CheckNumpyArray(time), CheckNumpyArray(magnitude),
                        CheckNumpyArray(band), CheckNumpyArray(viewing_angle)>>
                      \o (IF peak_mag = PyNone THEN <<>>
                          ELSE <<CheckNumpyArray(peak_mag)>>))
    IN  IF arrays.err # NoError THEN {Written(arrays.err, file, Unset)}
    ELSE LET t == arrays.val[1]
             m == arrays.val[2]
             b == arrays.val[3]
             v == arrays.val[4]
    IN  IF LengthsDiffer(t, m, b, v)
        THEN {Written(DataArraysLengthError, file, Unset)}
    ELSE LET data_dfs == FirstFailure([i \in 1..Len(t) |->
                                         LightcurveFrameOfArrays(t, m, b, v, i)])
    IN  IF data_dfs.err # NoError THEN {Written(data_dfs.err, file, Unset)}
    ELSE LET derived_data_dfs ==
                 IF peak_mag = PyNone THEN <<>>
                 ELSE [i \in 1..Len(arrays.val[5]) |->
                         FrameOfArrays(<<<<"peak_mag", arrays.val[5][i]>>>>).val]
    IN  WriteRTLightcurveFromDataframe(
            PyList(data_dfs.val),
            IF derived_data_dfs # <<>> THEN PyList(derived_data_dfs) ELSE PyNone,
            model_names, units, overwrite, file)

\* write_rt_spectrum_from_dict(data, num_models, path, model_names, None,
\* units, overwrite)
WriteRTSpectrumFromDict(data, num_models, model_names, units, overwrite, file) ==
    LET
        \* [pd.DataFrame(d) for d in data[i]]: iterating over a dict gives its keys
        FramesOfModel(d) ==
            IF d.type = "list"
            THEN LET fs == FirstFailure([j \in 1..Len(d.items) |->
                                           FrameOfDict(d.items[j])])
                 IN  IF fs.err # NoError THEN fs ELSE Outcome(NoError, PyList(fs.val))
            ELSE IF d.type = "dict"
            THEN IF d.columns = {} THEN Outcome(NoError, PyList(<<>>))
                 ELSE Outcome(ConstructorError, <<>>)
            ELSE Outcome(NotIterable, <<>>)
    IN
    LET checked == CheckNestedDataDict(data, num_models) IN
    IF checked.err # NoError THEN Written(checked.err, file, Unset)
    ELSE LET data_dfs ==
                 FirstFailure([i \in 1..num_models |->
                                 IF i > Len(checked.val.items)
                                 THEN Outcome(ListRangeError, <<>>)
                                 ELSE FramesOfModel(checked.val.items[i])])
    IN  IF data_dfs.err # NoError THEN Written(data_dfs.err, file, Unset)
        ELSE WriteRTSpectrumFromDataframe(PyList(data_dfs.val), num_models,
                                          model_names, units, overwrite, file)

\* write_rt_spectrum_from_numpy(wavelength, flux, time, path, None,
\* model_names, None, units, overwrite)
WriteRTSpectrumFromNumpy(wavelength, flux, time, model_names, units, overwrite, file) ==
    LET
        OneModelError ==
            [class |-> "ValueError",
             msg |-> "This function only allows to write one model at a time."]

        TimeTypeError ==
            [class |-> "ValueError", msg |-> "Time must be a float or a list of floats"]

        WavelengthFluxLengthError ==
            [class |-> "ValueError",
             msg |-> "Wavelength and flux must have the same length"]

        TimeLengthError ==
            [class |-> "ValueError",
             msg |-> "Time must have the same length as the data arrays"]

        \* the body of "for i, t in enumerate(time)": the table of spectrum i, its
        \* time column being [t] * len(wavelength[i])
        SpectrumFrameOfArrays(t, wavelength_i, flux_i) ==
            FrameOfArrays(<<<<"time", NdArray([j \in 1..Len(wavelength_i.items) |-> t])>>,
                            <<"wavelength", wavelength_i>>, <<"flux", flux_i>>>>)
    IN
    IF model_names # PyNone /\ model_names.type = "list"
       /\ Len(model_names.items) > 1
    THEN Written(OneModelError, file, Unset)
    ELSE LET arrays == FirstFailure(<<CheckNumpyArray(wavelength),
                                      CheckNumpyArray(flux)>>)
    IN  IF arrays.err # NoError THEN Written(arrays.err, file, Unset)
    ELSE IF time.type \notin {"float", "list"}
    THEN Written(TimeTypeError, file, Unset)
    ELSE LET w == arrays.val[1]
             f == arrays.val[2]
             times == IF time.type = "float" THEN <<time.value>>
                      ELSE [i \in 1..Len(time.items) |-> time.items[i].value]
    IN  IF Len(w) # Len(f) THEN Written(WavelengthFluxLengthError, file, Unset)
    ELSE IF Len(times) # Len(w) THEN Written(TimeLengthError, file, Unset)
    ELSE LET data_dfs ==
                 FirstFailure([i \in 1..Len(times) |->
                                 SpectrumFrameOfArrays(times[i], w[i], f[i])])
    IN  IF data_dfs.err # NoError THEN Written(data_dfs.err, file, Unset)
        ELSE WriteRTSpectrumFromDataframe(PyList(data_dfs.val), 1, model_names,
                                          units, overwrite, file)

\* ------------------------------------------------------------------------
\* Writers (writers/hydro1d.py)
\* ------------------------------------------------------------------------

\* write_hydro1d_from_dataframe, write_hydro1d_from_dict and
\* write_hydro1d_from_numpy: importing their module raises, so that no call
\* of them goes through
WriteHydro1D(file) ==
    LET
        \* "from hemsmapy.utils.writer_utils import ..." at the top of the module
        ModuleNotFoundError ==
            [class |-> "ModuleNotFoundError", msg |-> "No module named 'hemsmapy'"]
    IN
    Written(ModuleNotFoundError, file, Unset)

\* ------------------------------------------------------------------------
\* Inputs of the nested checks
\* ------------------------------------------------------------------------

\* longest list handed to a check, and largest number of models
MaxNested == 2

NestedInputs(t) ==
    LET
        \* a table or dict with the required columns, and one without the time
        Tables(ty) ==
            {[type |-> ty, columns |-> SpectrumColumns, items |-> <<>>],
             [type |-> ty, columns |-> {"wavelength", "flux"}, items |-> <<>>]}

        \* what a list of data may hold: tables, lists of tables, an int
        NestedElements(ty) ==
            Tables(ty) \cup {PyList(l) : l \in SeqsOf(Tables(ty), 0, MaxNested)}
            \cup {PyInt}
    IN
    Tables(t) \cup {PyInt}
    \cup {PyList(l) : l \in SeqsOf(NestedElements(t), 0, MaxNested)}

\* ------------------------------------------------------------------------
\* Inputs of the writers
\* ------------------------------------------------------------------------

\* most tables in a list handed to a writer
MaxModels == 2

\* a table of derived data, with a column the scheme does not have
DerivedTable ==
    Frame(<<[peak_mag |-> 1, viewing_angle |-> 1, band |-> "B", note |-> 1]>>)

\* the calls of the entry point of kind k
WriterInputs(k, entry) ==
    LET
        \* a str
        PyStr(name) == [type |-> "str", columns |-> {}, items |-> <<name>>]

        \* a dict of lists: items[i] holds element i of every list that has one, so
        \* the lists have one length iff every item has every key
        DictOfLists(rows) ==
            [type |-> "dict",
             columns |-> UNION {DOMAIN rows[i] : i \in 1..Len(rows)},
             items |-> rows]

        PyFloat(t) ==
            [type |-> "float", columns |-> {}, items |-> <<>>, value |-> t]

        \* the rows of the lightcurve tables: two rows in two bands, one row, two
        \* rows with a column the scheme does not have, two rows without a band
        LightcurveRows ==
            {<<LightcurveRow(1, <<1, "B">>), LightcurveRow(2, <<1, "V">>)>>,
             <<LightcurveRow(1, <<2, "B">>)>>,
             [i \in 1..2 |->
                [time |-> i, magnitude |-> i, viewing_angle |-> 1, band |-> "B",
                 luminosity |-> i]],
             [i \in 1..2 |-> [time |-> i, magnitude |-> i, viewing_angle |-> 1]]}

        \* the arguments of a writer call besides path and overwrite; derived_data
        \* is peak_mag for the numpy entry point
        WriterArgs(d, derived, names, units, n) ==
            [data |-> d, derived_data |-> derived, model_names |-> names,
             units |-> units, num_models |-> n]

        LightcurveTables == {Frame(rows) : rows \in LightcurveRows}

        \* the tables that may stand in a list: two rows in two bands, one row
        ListedLightcurves ==
            {Frame(<<LightcurveRow(1, <<1, "B">>), LightcurveRow(2, <<1, "V">>)>>),
             Frame(<<LightcurveRow(1, <<2, "B">>)>>)}

        \* data of write_rt_lightcurve_from_dataframe: a table, a list of tables,
        \* a list with an int, an int
        LightcurveData ==
            LightcurveTables
            \cup {PyList(l) : l \in SeqsOf(ListedLightcurves, 0, MaxModels)}
            \cup {PyList(<<PyInt>>), PyInt}

        \* derived_data of write_rt_lightcurve_from_dataframe
        LightcurveDerived ==
            {PyNone, DerivedTable, PyInt}
            \cup {PyList([i \in 1..n |-> DerivedTable]) : n \in 0..MaxModels}

        \* model_names of the writers: None, a name, a list of names
        ModelNames ==
            {PyNone, PyStr("m"), PyList(<<PyStr("m"), PyStr("m_1")>>),
             PyList(<<PyStr("m"), PyStr("m")>>)}

        \* units of the lightcurve writers: None, a dict, an int
        LightcurveUnits == {PyNone, Obj(<<<<"B", "mag">>>>), PyInt}

        \* the dicts of lists of write_rt_lightcurve_from_dict: two rows, lists of
        \* different lengths
        LightcurveDicts ==
            {DictOfLists(<<LightcurveRow(1, <<1, "B">>), LightcurveRow(2, <<1, "V">>)>>),
             DictOfLists(<<LightcurveRow(1, <<1, "B">>), [time |-> 2, magnitude |-> 2]>>)}

        \* the arrays of one model for write_rt_lightcurve_from_numpy
        TimeArray == NdArray(<<1, 2>>)

        BandArray == NdArray(<<"B", "V">>)

        \* n arrays of numbers, of bands
        NumberArrays(n) == PyList([i \in 1..n |-> TimeArray])

        BandArrays(n) == PyList([i \in 1..n |-> BandArray])

        \* time, magnitude, band and viewing_angle for 1..MaxModels models each
        LightcurveArrays ==
            {[time |-> NumberArrays(t), magnitude |-> NumberArrays(m),
              band |-> BandArrays(b), viewing_angle |-> NumberArrays(v)] :
                t \in 1..MaxModels, m \in 1..MaxModels, b \in 1..MaxModels,
                v \in 1..MaxModels}

        \* a spectrum table at time t: two wavelengths with their fluxes
        SpectrumTable(t) ==
            Frame([i \in 1..2 |-> [wavelength |-> i, flux |-> 10 * t + i, time |-> t]])

        \* spectrum tables: at time 1, at time 2, with two times, without a time,
        \* with a column the scheme does not have
        SpectrumTables ==
            {SpectrumTable(1), SpectrumTable(2),
             Frame(<<[wavelength |-> 1, flux |-> 1, time |-> 1],
                     [wavelength |-> 2, flux |-> 2, time |-> 2]>>),
             Frame(<<[wavelength |-> 1, flux |-> 1], [wavelength |-> 2, flux |-> 2]>>),
             Frame([i \in 1..2 |->
                      [wavelength |-> i, flux |-> i, time |-> 1, note |-> i]])}

        \* the tables of one model: at times 2 then 1, at time 1 twice, at time 1
        SpectrumLists ==
            {PyList(<<SpectrumTable(2), SpectrumTable(1)>>),
             PyList(<<SpectrumTable(1), SpectrumTable(1)>>),
             PyList(<<SpectrumTable(1)>>)}

        \* data of write_rt_spectrum_from_dataframe: a table, a list of tables, a
        \* list of lists of tables, a list of a table and a list, an int
        SpectrumData ==
            SpectrumTables
            \cup {PyList(l) :
                    l \in SeqsOf({SpectrumTable(1), SpectrumTable(2)}, 0, MaxModels)}
            \cup {PyList(l) : l \in SeqsOf(SpectrumLists, 1, MaxModels)}
            \cup {PyList(<<SpectrumTable(1), PyList(<<SpectrumTable(1)>>)>>), PyInt}

        \* a dict of lists of one spectrum at time t
        SpectrumDict(t) ==
            DictOfLists([i \in 1..2 |-> [wavelength |-> i, flux |-> 10 * t + i, time |-> t]])

        \* data of write_rt_spectrum_from_dict
        SpectrumDicts ==
            {SpectrumDict(1), PyList(<<SpectrumDict(2), SpectrumDict(1)>>),
             PyList(<<PyList(<<SpectrumDict(1)>>), PyList(<<SpectrumDict(2)>>)>>),
             PyList(<<SpectrumDict(1), PyList(<<SpectrumDict(1)>>)>>),
             DictOfLists(<<[wavelength |-> 1, flux |-> 1, time |-> 1],
                           [wavelength |-> 2]>>),
             PyInt}

        \* wavelength, flux and time of write_rt_spectrum_from_numpy
        SpectrumArrays ==
            {[wavelength |-> NumberArrays(w), flux |-> NumberArrays(f), time |-> t] :
                w \in 1..MaxModels, f \in 1..MaxModels,
                t \in {PyFloat(1), PyInt}
                      \cup {PyList([i \in 1..n |-> PyFloat(i)]) : n \in 1..MaxModels}}

        \* hydro1d tables: two rows, one row
        HydroTables == {Frame(<<HydroRow(1, 1), HydroRow(2, 1)>>), Frame(<<HydroRow(1, 1)>>)}

        \* as many derived tables as data has tables
        DerivedFor(d) ==
            IF d.type = "list" THEN PyList([i \in 1..Len(d.items) |-> DerivedTable])
            ELSE DerivedTable
    IN
    IF k = "hydro1d"
    THEN {WriterArgs(d, PyNone, PyNone, PyNone, 1) :
            d \in IF entry = "from_dataframe" THEN HydroTables ELSE {PyInt}}
    ELSE IF k = "rt_lightcurve" /\ entry = "from_dataframe"
    THEN {WriterArgs(d, derived, PyNone, PyNone, 0) :
            d \in LightcurveData, derived \in LightcurveDerived}
         \cup {WriterArgs(d, DerivedFor(d), names, units, 0) :
                 d \in {PyList(l) : l \in SeqsOf(ListedLightcurves, 1, 2)},
                 names \in ModelNames, units \in LightcurveUnits}
    ELSE IF k = "rt_lightcurve" /\ entry = "from_dict"
    THEN {WriterArgs(d, derived, PyNone, PyNone, 0) :
            d \in LightcurveDicts
                  \cup {PyList(l) : l \in SeqsOf(LightcurveDicts, 1, MaxModels)}
                  \cup {PyInt},
            derived \in {PyNone, PyInt,
                         DictOfLists(<<[peak_mag |-> 1, viewing_angle |-> 1]>>)}}
    ELSE IF k = "rt_lightcurve"
    THEN {WriterArgs(d, peak_mag, PyNone, PyNone, 0) :
            d \in LightcurveArrays,
            peak_mag \in {PyNone} \cup {NumberArrays(n) : n \in 1..MaxModels}}
    ELSE IF entry = "from_dataframe"
    THEN {WriterArgs(d, PyNone, PyNone, PyNone, n) :
            d \in SpectrumData, n \in 1..MaxModels}
         \cup {WriterArgs(d, PyNone, names, units, n) :
                 d \in {SpectrumTable(1),
                        PyList(<<SpectrumTable(1), SpectrumTable(2)>>)},
                 names \in ModelNames, units \in {PyNone, PyInt},
                 n \in 1..2}
    ELSE IF entry = "from_dict"
    THEN {WriterArgs(d, PyNone, PyNone, PyNone, n) :
            d \in SpectrumDicts, n \in 1..MaxModels}
    ELSE {WriterArgs(d, PyNone, names, PyNone, 1) :
            d \in SpectrumArrays,
            names \in {PyNone, PyList(<<PyStr("m"), PyStr("m_1")>>)}}

\* ------------------------------------------------------------------------
\* State machine
\* ------------------------------------------------------------------------

VARIABLES
    kind,         \* which class is instantiated
    text,         \* the content of the file at path
    pc,           \* "start" | "done" (object built) | "failed" (raised)
    err,          \* the exception __init__ raised
    data,         \* self.data
    models,       \* self.models
    multi_model,  \* self.multi_model
    valid,        \* self.valid
    call,         \* the selector of the last _get_model call
    ret,          \* what that call returned or raised
    op,           \* the last call of a public accessor or helper
    out,          \* what that call returned or raised
    written       \* the writer call that was made on the file, if any

vars ==
    <<kind, text, pc, err, data, models, multi_model, valid, call, ret,
      op, out, written>>

NoCall == [type |-> "nocall", i |-> 0, s |-> ""]

\* a call of accessor name with model selector sel and, when filtered, the
\* time or viewing angle value
Call(name, sel, filtered, value) ==
    [name |-> name, sel |-> sel, filtered |-> filtered, value |-> value]

NoOp == Call("none", NoCall, FALSE, 0)

NoOutcome == Outcome(NoError, <<>>)

\* no writer was called
NoWrite == [entry |-> "none"]

Init ==
    LET
        Texts ==
            LET
                Scalar(t) == [tag |-> t, items |-> <<>>]

                SingleItems == {Obj(<<<<k, b>>>>) : k \in Keys, b \in Bodies}

                \* array elements that are not single-key objects
                OddItems ==
                    { Scalar("number"), Obj(<<>>),
                      Obj(<<<<"m", FullBody>>, <<"m_2", StrBody>>>>),
                      Obj(<<<<"m_2", StrBody>>, <<"m", FullBody>>>>) }

                RegularArrays == {Arr(s) : s \in SeqsOf(SingleItems, 0, MaxItems)}

                MixedArrays ==
                    {Arr(s) : s \in {q \in SeqsOf(SingleItems \cup OddItems, 1, MaxMixed) :
                                        \E j \in 1..Len(q) : q[j] \in OddItems}}

                TopObjects ==
                    {Obj(<<>>)}
                    \cup {Obj(<<<<k, b>>>>) : k \in Keys, b \in Bodies}
                    \cup {Obj(<<<<p[1], b1>>, <<p[2], b2>>>>) :
                            p \in {q \in Keys \X Keys : q[1] # q[2]},
                            b1 \in Bodies, b2 \in Bodies}

                TopScalars == {Scalar("number"), Scalar("string"), Scalar("null")}
            IN
            {MalformedText}
            \cup {JsonText(v) :
                    v \in RegularArrays \cup MixedArrays \cup TopObjects \cup TopScalars}
    IN
    /\ kind \in Kinds
    /\ text \in Texts
    /\ pc = "start"
    /\ err = NoError
    /\ data = Unset
    /\ models = <<>>
    /\ multi_model = FALSE
    /\ valid = FALSE
    /\ call = NoCall
    /\ ret = Returned("")
    /\ op = NoOp
    /\ out = NoOutcome
    /\ written = NoWrite

\* Hydro1D(path) / RTLightcurve(path) / RTSpectrum(path)
Construct ==
    /\ pc = "start"
    /\ LET doc == NewDocument(text, kind) IN
       /\ pc' = IF doc.err = NoError THEN "done" ELSE "failed"
       /\ err' = doc.err
       /\ data' = doc.data
       /\ models' = doc.models
       /\ multi_model' = doc.multi_model
       /\ valid' = doc.valid
    /\ UNCHANGED <<written, kind, text, call, ret, op, out>>

\* doc._get_model(sel)
CallGetModel ==
    /\ pc = "done"
    /\ \E sel \in Selectors :
         /\ call' = sel
         /\ ret' = GetModel(models, sel)
    /\ UNCHANGED <<written, kind, text, pc, err, data, models, multi_model, valid,
                   op, out>>

Next == Construct \/ CallGetModel

Spec == Init /\ [][Next]_vars

\* construction over the files the accessors are exercised on
InitAccess ==
    LET
        \* files with one model "m", or with two models both named "m"
        AccessTexts(k) ==
            LET
                \* a row of a spectrum model at time t: two wavelengths, and as many fluxes
                \* ("plain"), fluxes with errors ("err"), or a single flux ("ragged")
                SpectrumRow(i, ts) ==
                    LET t == ts[1]
                        plain == [time |-> t, wavelength |-> <<10 * i + 1, 10 * i + 2>>,
                                  flux |-> <<i, t>>]
                    IN  IF ts[2] = "plain" THEN plain
                        ELSE IF ts[2] = "err"
                        THEN [time |-> t, wavelength |-> plain.wavelength,
                              flux |-> plain.flux, flux_err |-> <<1, 1>>]
                        ELSE [plain EXCEPT !.flux = <<i>>]

                RowChoices(kd) ==
                    IF kd = "hydro1d" THEN {1, 2}
                    ELSE IF kd = "rt_lightcurve" THEN {<<1, "B">>, <<2, "B">>, <<1, "V">>}
                    ELSE {<<1, "plain">>, <<2, "err">>, <<1, "ragged">>}

                RowOf(kd, i, c) ==
                    IF kd = "hydro1d" THEN HydroRow(i, c)
                    ELSE IF kd = "rt_lightcurve" THEN LightcurveRow(i, c)
                    ELSE SpectrumRow(i, c)

                \* the "data" arrays of kind k with 1..MaxRows rows
                RowLists(kd) ==
                    {[i \in 1..Len(cs) |-> RowOf(kd, i, cs[i])] :
                        cs \in SeqsOf(RowChoices(kd), 1, MaxRows)}

                \* the "units" objects: absent, empty, time only, time and bands
                UnitsChoices(kd) ==
                    {Unset, Obj(<<>>), Obj(<<<<"time", "s">>>>)}
                    \cup (IF kd = "rt_lightcurve"
                          THEN {Obj(<<<<"time", "s">>, <<"B", "mag">>>>),
                                Obj(<<<<"U", "mag">>>>)}
                          ELSE {Obj(<<<<"time", "s">>, <<"flux", "erg">>>>)})

                \* the "derived_data" arrays of a lightcurve model: absent, empty, rows with
                \* or without a viewing angle
                DerivedChoices ==
                    {Unset, Arr(<<>>),
                     Arr(<<[peak_mag |-> 1, viewing_angle |-> 1]>>),
                     Arr(<<[peak_mag |-> 1]>>),
                     Arr(<<[peak_mag |-> 1, viewing_angle |-> 1], [peak_mag |-> 2],
                           [peak_mag |-> 3, viewing_angle |-> 2]>>)}

                \* two rows of a hydro1d model without a time
                TimelessRows == <<[radius |-> 1, density |-> 1], [radius |-> 2, density |-> 1]>>

                \* two rows of a hydro1d model with the keys fields, both with string s
                \* under key
                TextRows(fields, key, s) ==
                    [i \in 1..2 |-> [c \in fields |-> IF c = key THEN s ELSE i]]

                \* hydro1d bodies whose rows lack the time, or hold a string as density or
                \* as abundance of He4
                SparseBodies ==
                    {Body(TRUE, TimelessRows, Obj(<<<<"time", "s">>>>), Unset),
                     Body(TRUE, TextRows({"radius", "density", "time", "pressure"},
                                         "pressure", "high"),
                          Obj(<<<<"time", "s">>>>), Unset),
                     Body(TRUE, TextRows({"radius", "density", "time", "xHe4"},
                                         "xHe4", "half"),
                          Obj(<<<<"time", "s">>>>), Unset)}

                \* the "data" arrays of kind k with two rows
                RowPairs(kd) == {rows \in RowLists(kd) : Len(rows) = 2}

                \* the bodies a file of kind k holds: named ones with a unit of time and
                \* any number of rows, named ones with two rows and every units object or
                \* (lightcurves) derived_data array, unnamed ones, and a string
                AccessBodies(kd) ==
                    {Body(TRUE, rows, Obj(<<<<"time", "s">>>>), Unset) : rows \in RowLists(kd)}
                    \cup {Body(TRUE, rows, units, Unset) :
                            rows \in RowPairs(kd), units \in UnitsChoices(kd)}
                    \cup (IF kd = "rt_lightcurve"
                          THEN {Body(TRUE, rows, units, derived) :
                                  rows \in RowPairs(kd),
                                  units \in {Unset, Obj(<<<<"time", "s">>>>)},
                                  derived \in DerivedChoices}
                          ELSE {})
                    \cup {Body(FALSE, rows, Unset, Unset) : rows \in RowPairs(kd)}
                    \cup (IF kd = "hydro1d" THEN SparseBodies ELSE {})
                    \cup {StrBody}

                \* the second model of a two-model file
                SecondBody(kd) ==
                    LET c == IF kd = "hydro1d" THEN 3
                             ELSE IF kd = "rt_lightcurve" THEN <<3, "U">>
                             ELSE <<3, "plain">>
                    IN  Body(TRUE, <<RowOf(kd, 1, c), RowOf(kd, 2, c)>>, Unset, Unset)
            IN
            {JsonText(Obj(<<<<"m", b>>>>)) : b \in AccessBodies(k)}
            \cup {JsonText(Arr(<<Obj(<<<<"m", b>>>>), Obj(<<<<"m", SecondBody(k)>>>>)>>)) :
                    b \in {c \in AccessBodies(k) : Len(c.rows) = 2}}
    IN
    /\ kind \in Kinds
    /\ text \in AccessTexts(kind)
    /\ pc = "start"
    /\ err = NoError
    /\ data = Unset
    /\ models = <<>>
    /\ multi_model = FALSE
    /\ valid = FALSE
    /\ call = NoCall
    /\ ret = Returned("")
    /\ op = NoOp
    /\ out = NoOutcome
    /\ written = NoWrite

\* get_data of the three classes
DataOf(k, d, ms, v, sel, filtered, value) ==
    IF k = "hydro1d" THEN GetData(d, ms, v, sel, "time", filtered, value)
    ELSE IF k = "rt_lightcurve"
    THEN GetData(d, ms, v, sel, "viewing_angle", filtered, value)
    ELSE RTSpectrumGetData(d, ms, v, sel, filtered, value)

\* get_units of the three classes
UnitsOf(k, d, ms, v, sel) ==
    IF k = "hydro1d" THEN Hydro1DGetUnits(d, ms, v, sel)
    ELSE IF k = "rt_lightcurve" THEN RTLightcurveGetUnits(d, ms, v, sel)
    ELSE RTSpectrumGetUnits(d, ms, v, sel)

\* an accessor call that leaves result r
Accessed(c, r) ==
    /\ op' = c
    /\ out' = Outcome(r.err, r.val)
    /\ data' = r.data
    /\ UNCHANGED <<written, kind, text, pc, err, models, multi_model, valid, call,
                   ret>>

\* doc.get_unique_times(model=sel)
CallGetUniqueTimes ==
    /\ pc = "done"
    /\ kind \in {"hydro1d", "rt_spectrum"}
    /\ \E sel \in AccessSelectors :
         Accessed(Call("get_unique_times", sel, FALSE, 0),
                  GetUniqueTimes(data, models, valid, sel))

\* doc.get_unique_viewing_angles(model=sel)
CallGetUniqueViewingAngles ==
    /\ pc = "done"
    /\ kind = "rt_lightcurve"
    /\ \E sel \in AccessSelectors :
         Accessed(Call("get_unique_viewing_angles", sel, FALSE, 0),
                  GetUniqueViewingAngles(data, models, valid, sel))

\* doc.get_unique_bands(model=sel)
CallGetUniqueBands ==
    /\ pc = "done"
    /\ kind = "rt_lightcurve"
    /\ \E sel \in AccessSelectors :
         Accessed(Call("get_unique_bands", sel, FALSE, 0),
                  GetUniqueBands(data, models, valid, sel))

\* doc.get_data(time=value, model=sel), doc.get_data(viewing_angle=value,
\* model=sel)
CallGetData ==
    /\ pc = "done"
    /\ \E sel \in AccessSelectors, f \in Filters :
         Accessed(Call("get_data", sel, f[1], f[2]),
                  DataOf(kind, data, models, valid, sel, f[1], f[2]))

\* doc.get_derived_data(viewing_angle=value, model=sel)
CallGetDerivedData ==
    /\ pc = "done"
    /\ kind = "rt_lightcurve"
    /\ \E sel \in AccessSelectors, f \in Filters :
         Accessed(Call("get_derived_data", sel, f[1], f[2]),
                  GetDerivedData(data, models, valid, sel, f[1], f[2]))

\* doc.get_units(model=sel)
CallGetUnits ==
    /\ pc = "done"
    /\ \E sel \in AccessSelectors :
         Accessed(Call("get_units", sel, FALSE, 0),
                  UnitsOf(kind, data, models, valid, sel))

\* normalize_hydro1d_data(doc.get_data(time=value, model=sel))
CallNormalize ==
    /\ pc = "done"
    /\ kind = "hydro1d"
    /\ op.name = "get_data"
    /\ out.err = NoError
    /\ op' = Call("normalize_hydro1d_data", op.sel, op.filtered, op.value)
    /\ out' = Outcome(NoError, NormalizeHydro1DData(out.val))
    /\ UNCHANGED <<written, kind, text, pc, err, data, models, multi_model, valid,
                   call, ret>>

NextAccess ==
    \/ Construct
    \/ CallGetUniqueTimes
    \/ CallGetUniqueViewingAngles
    \/ CallGetUniqueBands
    \/ CallGetData
    \/ CallGetDerivedData
    \/ CallGetUnits
    \/ CallNormalize

SpecAccess == InitAccess /\ [][NextAccess]_vars

\* construction over the hydro1d files with abundance columns
InitAbundance ==
    LET
        AbundanceTexts ==
            LET
                \* the abundances of an isotope in the two cells, in tenths; <<>> when the
                \* rows do not have the isotope
                AbundanceChoices == {<<>>, <<5, 1>>, <<5, 9>>, <<2, 2>>}

                \* row i of a hydro1d model with abundance columns: x maps the isotopes to
                \* their abundances, and the row has a mass if withMass
                AbundanceRow(i, x, withMass, times) ==
                    LET isotopes == {c \in DOMAIN x : x[c] # <<>>}
                        keys == {"radius", "density", "time"} \cup isotopes
                                \cup (IF withMass THEN {"mass"} ELSE {})
                    IN  [c \in keys |->
                           IF c = "time" THEN times[i]
                           ELSE IF c \in isotopes THEN x[c][i]
                           ELSE i]

                AbundanceBodies ==
                    {Body(TRUE, [i \in 1..2 |-> AbundanceRow(i, x, withMass, times)],
                          Unset, Unset) :
                        x \in [{"xHe4", "xC12", "xNi56"} -> AbundanceChoices],
                        withMass \in BOOLEAN,
                        times \in {<<1, 1>>, <<1, 2>>}}
            IN
            {JsonText(Obj(<<<<"m", b>>>>)) : b \in AbundanceBodies}
    IN
    /\ kind = "hydro1d"
    /\ text \in AbundanceTexts
    /\ pc = "start"
    /\ err = NoError
    /\ data = Unset
    /\ models = <<>>
    /\ multi_model = FALSE
    /\ valid = FALSE
    /\ call = NoCall
    /\ ret = Returned("")
    /\ op = NoOp
    /\ out = NoOutcome
    /\ written = NoWrite

\* get_abundance_data(doc.get_data(time=value, model=sel), n)
CallGetAbundanceData ==
    LET
        \* a call get_abundance_data(table, n), table being what call c returned
        AbundanceCall(c, n) ==
            [name |-> "get_abundance_data", sel |-> c.sel, filtered |-> c.filtered,
             value |-> c.value, max_abundances |-> n]
    IN
    /\ pc = "done"
    /\ op.name = "get_data"
    /\ out.err = NoError
    /\ \E n \in 0..MaxAbundances :
         /\ op' = AbundanceCall(op, n)
         /\ out' \in GetAbundanceData(out.val, n)
    /\ UNCHANGED <<written, kind, text, pc, err, data, models, multi_model, valid,
                   call, ret>>

NextAbundance == Construct \/ CallGetData \/ CallGetAbundanceData

SpecAbundance == InitAbundance /\ [][NextAbundance]_vars

\* construction over the hydro1d files with columns to normalize
InitNormalize ==
    LET
        NormalizeTexts ==
            LET
                \* the values of a column in the two cells; <<>> when the rows do not have
                \* the column
                ColumnChoices == {<<>>, <<1, 2>>, <<0, 0>>, <<0 - 4, 0 - 2>>}

                \* row i of a hydro1d model: x maps the optional columns to their values
                NormalizeRow(i, x) ==
                    LET keys == {"radius", "time"} \cup {c \in DOMAIN x : x[c] # <<>>}
                    IN  [c \in keys |-> IF c \in {"radius", "time"} THEN i ELSE x[c][i]]

                NormalizeBodies ==
                    {Body(TRUE, [i \in 1..2 |-> NormalizeRow(i, x)], Unset, Unset) :
                        x \in {y \in [{"density", "pressure", "mass", "velocity", "xHe4"}
                                        -> ColumnChoices] :
                                 /\ y["density"] # <<>>
                                 /\ y["velocity"] \in {<<>>, <<1, 2>>}
                                 /\ y["xHe4"] \in {<<>>, <<1, 2>>}}}
            IN
            {JsonText(Obj(<<<<"m", b>>>>)) : b \in NormalizeBodies}
    IN
    /\ kind = "hydro1d"
    /\ text \in NormalizeTexts
    /\ pc = "start"
    /\ err = NoError
    /\ data = Unset
    /\ models = <<>>
    /\ multi_model = FALSE
    /\ valid = FALSE
    /\ call = NoCall
    /\ ret = Returned("")
    /\ op = NoOp
    /\ out = NoOutcome
    /\ written = NoWrite

NextNormalize == Construct \/ CallGetData \/ CallNormalize

SpecNormalize == InitNormalize /\ [][NextNormalize]_vars

\* what the entry point of kind k may leave of the file
WriterOutcomes(k, entry, a, overwrite, file) ==
    IF k = "hydro1d" THEN {WriteHydro1D(file)}
    ELSE IF k = "rt_lightcurve"
    THEN IF entry = "from_dataframe"
         THEN WriteRTLightcurveFromDataframe(a.data, a.derived_data,
                                             a.model_names, a.units,
                                             overwrite, file)
         ELSE IF entry = "from_dict"
         THEN WriteRTLightcurveFromDict(a.data, a.derived_data, a.model_names,
                                        a.units, overwrite, file)
         ELSE WriteRTLightcurveFromNumpy(a.data.time, a.data.magnitude,
                                         a.data.band, a.data.viewing_angle,
                                         a.derived_data, a.model_names,
                                         a.units, overwrite, file)
    ELSE IF entry = "from_dataframe"
    THEN {WriteRTSpectrumFromDataframe(a.data, a.num_models, a.model_names,
                                       a.units, overwrite, file)}
    ELSE IF entry = "from_dict"
    THEN {WriteRTSpectrumFromDict(a.data, a.num_models, a.model_names,
                                  a.units, overwrite, file)}
    ELSE {WriteRTSpectrumFromNumpy(a.data.wavelength, a.data.flux, a.data.time,
                                   a.model_names, a.units, overwrite, file)}

\* a call of the writer entry point on the file before, and what it left
WriterCall(entry, a, overwrite, before, r) ==
    [entry |-> entry, args |-> a, overwrite |-> overwrite, before |-> before,
     err |-> r.err, document |-> r.document]

\* one call of write_hydro1d_from_dataframe, write_rt_lightcurve_from_dataframe
\* or write_rt_spectrum_from_dataframe on the path
CallWriteFromDataframe ==
    /\ pc = "start"
    /\ written = NoWrite
    /\ \E a \in WriterInputs(kind, "from_dataframe"), overwrite \in BOOLEAN :
         \E r \in WriterOutcomes(kind, "from_dataframe", a, overwrite, text) :
            /\ text' = r.file
            /\ written' = WriterCall("from_dataframe", a, overwrite, text, r)
    /\ UNCHANGED <<kind, pc, err, data, models, multi_model, valid, call, ret,
                   op, out>>

\* one call of write_hydro1d_from_dict, write_rt_lightcurve_from_dict or
\* write_rt_spectrum_from_dict on the path
CallWriteFromDict ==
    /\ pc = "start"
    /\ written = NoWrite
    /\ \E a \in WriterInputs(kind, "from_dict"), overwrite \in BOOLEAN :
         \E r \in WriterOutcomes(kind, "from_dict", a, overwrite, text) :
            /\ text' = r.file
            /\ written' = WriterCall("from_dict", a, overwrite, text, r)
    /\ UNCHANGED <<kind, pc, err, data, models, multi_model, valid, call, ret,
                   op, out>>

\* one call of write_hydro1d_from_numpy, write_rt_lightcurve_from_numpy or
\* write_rt_spectrum_from_numpy on the path
CallWriteFromNumpy ==
    /\ pc = "start"
    /\ written = NoWrite
    /\ \E a \in WriterInputs(kind, "from_numpy"), overwrite \in BOOLEAN :
         \E r \in WriterOutcomes(kind, "from_numpy", a, overwrite, text) :
            /\ text' = r.file
            /\ written' = WriterCall("from_numpy", a, overwrite, text, r)
    /\ UNCHANGED <<kind, pc, err, data, models, multi_model, valid, call, ret,
                   op, out>>

\* a path with or without a file, a writer call on it, then the loader and
\* get_data on what is at the path
InitWrite ==
    LET
        \* the file at path before a writer is called: none, or a file of one
        \* model "old"
        FilesBefore == {NoFile, JsonText(Obj(<<<<"old", FullBody>>>>))}
    IN
    /\ kind \in Kinds
    /\ text \in FilesBefore
    /\ pc = "start"
    /\ err = NoError
    /\ data = Unset
    /\ models = <<>>
    /\ multi_model = FALSE
    /\ valid = FALSE
    /\ call = NoCall
    /\ ret = Returned("")
    /\ op = NoOp
    /\ out = NoOutcome
    /\ written = NoWrite

NextWrite ==
    \/ CallWriteFromDataframe
    \/ CallWriteFromDict
    \/ CallWriteFromNumpy
    \/ Construct
    \/ CallGetData

SpecWrite == InitWrite /\ [][NextWrite]_vars

\* a call of a nested check on data for num_models models
NestedCall(name, d, n) ==
    [name |-> name, sel |-> NoCall, filtered |-> FALSE, value |-> 0,
     data |-> d, num_models |-> n]

\* _check_nested_data_dataframe(data, ["wavelength", "flux", "time"], n);
\* the checks keep no state, so a behaviour is a single call
CallCheckNestedDataDataframe ==
    /\ op = NoOp
    /\ \E d \in NestedInputs("DataFrame"), n \in 1..MaxNested :
         /\ op' = NestedCall("_check_nested_data_dataframe", d, n)
         /\ out' = CheckNestedDataDataframe(d, SpectrumColumns, n)
    /\ UNCHANGED <<written, kind, text, pc, err, data, models, multi_model, valid,
                   call, ret>>

\* _check_nested_data_dict(data, n)
CallCheckNestedDataDict ==
    /\ op = NoOp
    /\ \E d \in NestedInputs("dict"), n \in 1..MaxNested :
         /\ op' = NestedCall("_check_nested_data_dict", d, n)
         /\ out' = CheckNestedDataDict(d, n)
    /\ UNCHANGED <<written, kind, text, pc, err, data, models, multi_model, valid,
                   call, ret>>

\* no document: only the checks are called
InitNested ==
    /\ kind = "rt_spectrum"
    /\ text = MalformedText
    /\ pc = "start"
    /\ err = NoError
    /\ data = Unset
    /\ models = <<>>
    /\ multi_model = FALSE
    /\ valid = FALSE
    /\ call = NoCall
    /\ ret = Returned("")
    /\ op = NoOp
    /\ out = NoOutcome
    /\ written = NoWrite

NextNested == CallCheckNestedDataDataframe \/ CallCheckNestedDataDict

SpecNested == InitNested /\ [][NextNested]_vars

\* ------------------------------------------------------------------------
\* Properties of construction
\* ------------------------------------------------------------------------

\* the file content is syntactically valid JSON
Parsed == text.syntax = "json"

\* the parsed top-level value
raw == text.value

\* every element of the list v is a mapping
AllMappings(v) == \A j \in 1..Len(v.items) : IsDict(v.items[j])

\* every element of the list v is a mapping with exactly one key
AllSingleKey(v) ==
    \A j \in 1..Len(v.items) :
        IsDict(v.items[j]) /\ Len(v.items[j].items) = 1

\* normalisation is flagged as failed: a top-level scalar, or an array with
\* an element that is not a mapping
NormalizationFailed(v) == ~IsDict(v) /\ ~(IsList(v) /\ AllMappings(v))

\* every model named in models validates against the kind's schema
EveryModelValidates ==
    \A j \in 1..Len(models) :
        SchemaValidates(DictGet(data.items, models[j]), kind)

\* the first key of the j-th array element and the body stored under it
KeyAt(j) == raw.items[j].items[1][1]

BodyAt(j) == raw.items[j].items[1][2]

\* C1: a constructed document's valid flag equals (normalisation succeeded)
\* and (every model in models validates): a document whose normalisation
\* was flagged as failed never ends valid.
C1_ValidIffNormalizedAndValidated ==
    (pc = "done" /\ Parsed) =>
        (valid = (~NormalizationFailed(raw) /\ EveryModelValidates))

\* not one of the two legal top-level shapes
IllegalShape(v) ==
    \/ ~IsDict(v) /\ ~IsList(v)
    \/ IsList(v) /\ (Len(v.items) = 0 \/ ~AllSingleKey(v))

\* C2: loading a top-level scalar, an empty array, an array with a
\* non-mapping element or with an object that has not exactly one key
\* yields a document with models = [] and valid = false.
C2_IllegalShapeGivesEmptyInvalid ==
    (pc # "start" /\ Parsed /\ IllegalShape(raw)) =>
        (pc = "done" /\ models = <<>> /\ valid = FALSE)

\* C3: construction never raises on content that parses as JSON; it returns
\* a document, with valid = false when normalisation failed.
C3_ConstructionNeverRaises ==
    (pc # "start" /\ Parsed) =>
        (pc = "done" /\ (NormalizationFailed(raw) => valid = FALSE))

\* C4: content that is not JSON makes construction of every kind fail with
\* an I/O-class error; no document object results, so the outcome is never
\* a document with valid = false.
C4_MalformedRaisesIOError ==
    (pc # "start" /\ ~Parsed) =>
        (pc = "failed" /\ err.class = "IOError" /\ data = Unset)

C4_Witness == pc = "failed" /\ ~Parsed /\ err = InvalidJSONFile

\* C5: for a top-level object, models is the list of its keys in stored
\* order, data is the parsed object unchanged and multi_model is
\* (number of keys > 1); one key gives models = [key], multi_model false.
C5_ObjectPassedThrough ==
    (pc # "start" /\ Parsed /\ IsDict(raw)) =>
        /\ pc = "done"
        /\ models = DictKeys(raw.items)
        /\ data = raw
        /\ multi_model = (Len(raw.items) > 1)
        /\ (Len(raw.items) = 1 =>
              (models = <<raw.items[1][1]>> /\ multi_model = FALSE))

C5_Witness ==
    /\ pc = "done" /\ Parsed /\ IsDict(raw)
    /\ Len(raw.items) = 2 /\ multi_model /\ models = <<"m_2", "m">>

\* an array of single-key objects
RegularInput == Parsed /\ IsList(raw) /\ AllSingleKey(raw)

\* the keys of the array's elements are pairwise distinct
DistinctKeys ==
    \A i \in 1..Len(raw.items) : \A j \in 1..Len(raw.items) :
        KeyAt(i) = KeyAt(j) => i = j

FirstWith(k) ==
    CHOOSE j \in 1..Len(raw.items) :
        KeyAt(j) = k /\ \A h \in 1..(j - 1) : KeyAt(h) # k

\* C7: in an array of single-key objects, an element at 0-based position i
\* whose key name repeats an earlier element's key is listed in models[i]
\* and stored in the mapping as "<name>_<i>" with its own body, while the
\* earlier (first) element keeps the plain name and its own body.
C7_RepeatedKeySuffixed ==
    (pc = "done" /\ RegularInput) =>
        \A i \in 1..Len(raw.items) :
            (\E j \in 1..(i - 1) : KeyAt(j) = KeyAt(i)) =>
                LET name == KeyAt(i)
                    first == FirstWith(name)
                IN  /\ models[i] = Rename(name, i - 1)
                    /\ DictHas(data.items, models[i])
                    /\ DictGet(data.items, models[i]) = BodyAt(i)
                    /\ models[first] = name
                    /\ DictGet(data.items, name) = BodyAt(first)

\* C8: after construction from any array of mappings the entries of models
\* are pairwise distinct, the names in models are exactly the keys of the
\* mapping, and every element's body is stored under its own model name.
C8_NamesUniqueBodiesKept ==
    (pc = "done" /\ Parsed /\ IsList(raw) /\ AllMappings(raw)) =>
        /\ \A i \in 1..Len(models) : \A j \in 1..Len(models) :
              models[i] = models[j] => i = j
        /\ {models[j] : j \in 1..Len(models)}
              = {data.items[j][1] : j \in 1..Len(data.items)}
        /\ Len(models) = Len(raw.items)
        /\ \A j \in 1..Len(raw.items) :
              DictGet(data.items, models[j]) = BodyAt(j)

\* ------------------------------------------------------------------------
\* Properties of _get_model
\* ------------------------------------------------------------------------

\* C9: an integer selector i that is a position of models returns models[i];
\* every i >= len(models) fails with the index-out-of-range condition; on an
\* empty model list every integer selector fails with a range error.
C9_IntegerSelector ==
    (pc = "done" /\ call.type = "int") =>
        /\ (0 <= call.i /\ call.i < Len(models)) =>
              ret = Returned(models[call.i + 1])
        /\ call.i >= Len(models) => ret = Raised(InvalidModelIndex)
        /\ Len(models) = 0 =>
              ret \in {Raised(InvalidModelIndex), Raised(ListRangeError)}

C9_Witness ==
    /\ pc = "done" /\ call.type = "int"
    /\ Len(models) = 2 /\ call.i = 2
    /\ ret = Raised(InvalidModelIndex)

\* the class of bad input a selector falls in on the current document
BadClass(sel) ==
    IF IsInstanceInt(sel) /\ sel.i >= Len(models) THEN "range"
    ELSE IF sel.type = "str" /\ ~InList(models, sel.s) THEN "name"
    ELSE IF sel.type \notin {"none", "int", "bool", "str"} THEN "type"
    ELSE "good"

\* C10: a string selector is returned unchanged iff it is in models and
\* otherwise fails with the unknown-model condition; a selector that is
\* neither omitted, an integer nor a string fails with the type-class
\* condition; a call that fails for one bad-input class fails with a
\* condition different from the one any selector of another class gives.
C10_DistinctSelectorErrors ==
    pc = "done" =>
        /\ call.type = "str" =>
              /\ InList(models, call.s) => ret = Returned(call.s)
              /\ ~InList(models, call.s) => ret = Raised(InvalidModelName)
        /\ call.type = "float" =>
              (ret = Raised(InvalidModelType) /\ ret.err.class = "TypeError")
        /\ (call # NoCall /\ BadClass(call) # "good") =>
              /\ ret.err # NoError
              /\ \A other \in Selectors :
                    BadClass(other) \notin {"good", BadClass(call)} =>
                        ret.err # GetModel(models, other).err

C10_Witness ==
    /\ pc = "done" /\ call = StrSel("zz")
    /\ Len(models) > 0 /\ ret = Raised(InvalidModelName)

\* C11: on a document with at least one model, _get_model with the selector
\* omitted returns the first entry of models, and _get_model(0),
\* _get_model(models[0]) and _get_model() return the same name; for an array
\* input the first element keeps its plain key, repeated keys or not.
C11_DefaultIsFirstModel ==
    (pc = "done" /\ Len(models) >= 1) =>
        /\ call \in {NoneSel, IntSel(0), StrSel(models[1])} =>
              ret = Returned(models[1])
        /\ GetModel(models, NoneSel) = GetModel(models, IntSel(0))
        /\ GetModel(models, NoneSel) = GetModel(models, StrSel(models[1]))
        /\ RegularInput => models[1] = KeyAt(1)

C11_Witness ==
    /\ pc = "done" /\ RegularInput /\ Len(raw.items) = 3
    /\ KeyAt(1) = "m" /\ KeyAt(2) = "m" /\ KeyAt(3) = "m"
    /\ call = NoneSel /\ ret = Returned("m")

\* ------------------------------------------------------------------------
\* Properties of the accessors
\* ------------------------------------------------------------------------

UniqueQueries ==
    {"get_unique_times", "get_unique_viewing_angles", "get_unique_bands"}

\* C12: on a document with valid = false, whatever the selector, a unique_*
\* query returns the empty list, get_data and get_derived_data raise
\* NotImplementedError "Getting data of invalid data not implemented" and
\* get_units raises NotImplementedError "Getting units of invalid data not
\* implemented"; self.data is left as construction left it
C12_InvalidDocumentQueries ==
    (pc = "done" /\ ~valid /\ op # NoOp) =>
        /\ op.name \in UniqueQueries => out = Outcome(NoError, <<>>)
        /\ op.name \in {"get_data", "get_derived_data"} =>
              out = Outcome(NotImplementedData, <<>>)
        /\ op.name = "get_units" => out = Outcome(NotImplementedUnits, <<>>)
        /\ data = NewDocument(text, kind).data

\* get_data with a time and an unknown model name on an invalid document
C12_Witness ==
    /\ pc = "done" /\ ~valid
    /\ op = Call("get_data", StrSel("zz"), TRUE, 1)
    /\ out = Outcome(NotImplementedData, <<>>)

\* the body the file gives the model the last call's selector resolves to
FileBody == ModelBody(NewDocument(text, kind).data, GetModel(models, op.sel).name)

\* the last call was get_units on a valid document, for a model that exists
UnitsAsked ==
    /\ pc = "done" /\ valid
    /\ op.name = "get_units"
    /\ GetModel(models, op.sel).err = NoError

\* the fields the units of a model of the kind are to list
ExpectedFields(k, body) ==
    IF k = "hydro1d"
    THEN {"radius", "density", "pressure", "temperature", "mass", "velocity",
          "time"}
    ELSE IF k = "rt_spectrum" THEN {"time", "wavelength", "flux", "flux_err"}
    ELSE {"time"} \cup FieldValues(body.rows, "band")

\* field has no unit in the file's body
NoUnitInFile(body, field) ==
    body.units = Unset \/ ~DictHas(body.units.items, field)

\* C13: on a valid document get_units never raises: it returns a mapping
\* with every expected field of the kind, and a field without a unit in the
\* file (or every field, when the model has no "units" object) maps to
\* "(arb. units)"
C13_UnitsNeverFail ==
    UnitsAsked =>
        /\ out.err = NoError
        /\ \A f \in ExpectedFields(kind, FileBody) :
              /\ DictHas(out.val, f)
              /\ NoUnitInFile(FileBody, f) => DictGet(out.val, f) = "(arb. units)"

\* what get_units(model=sel) raises or returns in the current state
UnitsNow(sel) ==
    LET r == UnitsOf(kind, data, models, valid, sel) IN Outcome(r.err, r.val)

\* what get_units(model=sel) raises or returns after the step
UnitsNext(sel) ==
    LET r == UnitsOf(kind', data', models', valid', sel)
    IN  Outcome(r.err, r.val)

\* the step changes something get_units reads
TouchesDocument ==
    kind' # kind \/ data' # data \/ models' # models \/ valid' # valid

\* C14: get_units is idempotent: no accessor call, get_units included,
\* changes what get_units raises or returns for any model selector, and
\* what a get_units call gave is what get_units gives in the state it
\* leaves; so a second get_units(model) gives the mapping the first one
\* gave, whatever calls come in between, also when the first call stored
\* "(arb. units)" for the bands without a unit
C14_UnitsIdempotent ==
    [][pc = "done" =>
          /\ TouchesDocument =>
                \A sel \in AccessSelectors : UnitsNext(sel) = UnitsNow(sel)
          /\ op'.name = "get_units" => out' = UnitsNext(op'.sel)]_vars

\* get_units returned "(arb. units)" for band V and stored it in self.data
C14_Witness ==
    /\ pc = "done" /\ valid /\ kind = "rt_lightcurve"
    /\ op.name = "get_units" /\ out.err = NoError
    /\ DictHas(out.val, "V") /\ DictGet(out.val, "V") = "(arb. units)"
    /\ data # NewDocument(text, kind).data

\* the row field a unique_* query lists
QueriedField(name) ==
    IF name = "get_unique_viewing_angles" THEN "viewing_angle"
    ELSE IF name = "get_unique_bands" THEN "band"
    ELSE "time"

\* a before b in the order of the field's values
Before(field, a, b) == IF field = "band" THEN Ord(a) < Ord(b) ELSE a < b

\* C15: on a valid document a unique_* query for a model that exists
\* returns a strictly ascending list holding exactly the values its field
\* takes in the rows of that model, each once; the rows of the document's
\* other models add nothing
C15_UniqueValuesAscending ==
    (/\ pc = "done" /\ valid
     /\ op.name \in UniqueQueries
     /\ GetModel(models, op.sel).err = NoError) =>
        LET field == QueriedField(op.name) IN
        /\ out.err = NoError
        /\ \A i \in 1..(Len(out.val) - 1) :
              Before(field, out.val[i], out.val[i + 1])
        /\ {out.val[i] : i \in 1..Len(out.val)}
              = {FileBody.rows[i][field] : i \in 1..Len(FileBody.rows)}

\* times 2, 1, 2 in the rows of the first of two models (the other model's
\* rows are at time 3) listed as 1, 2
C15_Witness ==
    /\ pc = "done" /\ valid /\ multi_model
    /\ op = Call("get_unique_times", IntSel(0), FALSE, 0)
    /\ FileBody.rows[1].time = 2 /\ FileBody.rows[2].time = 1
    /\ out = Outcome(NoError, <<1, 2>>)

\* the last call was get_data of a Hydro1D or RTLightcurve on a valid
\* document, for a model that exists
RowsAsked ==
    /\ pc = "done" /\ valid
    /\ kind \in {"hydro1d", "rt_lightcurve"}
    /\ op.name = "get_data"
    /\ GetModel(models, op.sel).err = NoError

\* the field get_data filters on
FilterField == IF kind = "hydro1d" THEN "time" ELSE "viewing_angle"

\* the records of the table get_data(value) gives for the same model now
RowsAt(value) ==
    LET r == DataOf(kind, data, models, valid, op.sel, TRUE, value)
    IN  {r.val.records[i] : i \in 1..Len(r.val.records)}

\* C16: on a valid Hydro1D or RTLightcurve document get_data(model) returns
\* all rows of the model in stored order, get_data(v, model) exactly the
\* rows whose time (viewing_angle) equals v, in stored order and without
\* raising when there are none, and the rows of get_data(v) over the v of
\* the unique_* list are together all the rows
C16_RowsAndFilter ==
    RowsAsked =>
        LET rows == FileBody.rows
            wanted == IF op.filtered
                      THEN SelectSeq(rows, LAMBDA r : r[FilterField] = op.value)
                      ELSE rows
        IN  /\ out.err = NoError
            /\ out.val.records = wanted
            /\ \A i \in 1..Len(wanted) : rows[out.val.index[i] + 1] = wanted[i]
            /\ \A i \in 1..(Len(wanted) - 1) :
                  out.val.index[i] < out.val.index[i + 1]
            /\ ~op.filtered =>
                  UNION {RowsAt(v) : v \in FieldValues(rows, FilterField)}
                     = {rows[i] : i \in 1..Len(rows)}

\* a viewing angle that some but not all of the model's rows have
C16_Witness ==
    /\ RowsAsked /\ kind = "rt_lightcurve"
    /\ op.filtered /\ op.value = 2
    /\ Len(out.val.records) = 1 /\ Len(FileBody.rows) = 3
    /\ out.val.index = <<1>>

\* the last call was get_data of an RTSpectrum on a valid document, for a
\* model that exists
SpectrumAsked ==
    /\ pc = "done" /\ valid
    /\ kind = "rt_spectrum"
    /\ op.name = "get_data"
    /\ GetModel(models, op.sel).err = NoError

\* table holds the wavelength, flux and (if the row has it) flux_err of row
TableOfRow(table, row) ==
    /\ table.columns = {"wavelength", "flux"} \cup ({"flux_err"} \cap DOMAIN row)
    /\ \A c \in table.columns :
          [i \in 1..Len(table.records) |-> table.records[i][c]] = row[c]

\* value is what get_data(time) is to give on rows: the table of the first
\* row at that time, or None
TableAtTime(value, rows, time) ==
    LET at == {i \in 1..Len(rows) : rows[i].time = time} IN
    IF at = {} THEN value = PyNone
    ELSE /\ value # PyNone
         /\ TableOfRow(value, rows[CHOOSE i \in at : \A j \in at : i <= j])

\* C17: on a valid RTSpectrum document get_data(t, model) returns the table
\* of wavelength, flux and (if present) flux_err of the first row whose time
\* equals t, and None when there is none; get_data(model) returns one such
\* table per distinct time, in ascending order of time
C17_SpectrumTables ==
    SpectrumAsked =>
        LET rows == FileBody.rows
            times == SortedNumbers(FieldValues(rows, "time"))
        IN  /\ out.err = NoError
            /\ op.filtered => TableAtTime(out.val, rows, op.value)
            /\ ~op.filtered =>
                  /\ Len(out.val) = Len(times)
                  /\ \A k \in 1..Len(times) :
                        TableAtTime(out.val[k], rows, times[k])

\* the unit the file gives field in body, or the sentinel
UnitInFile(body, field) ==
    IF NoUnitInFile(body, field) THEN "(arb. units)"
    ELSE DictGet(body.units.items, field)

\* C18: on a valid RTLightcurve document get_units(model) returns a mapping
\* whose keys are exactly "time" and the bands of the model's rows (a unit
\* stored for a band without rows is left out); a band maps to its unit in
\* the file, or to "(arb. units)" without one, and so does "time"
C18_LightcurveUnitKeys ==
    (UnitsAsked /\ kind = "rt_lightcurve") =>
        /\ out.err = NoError
        /\ {out.val[i][1] : i \in 1..Len(out.val)}
              = {"time"} \cup FieldValues(FileBody.rows, "band")
        /\ \A i \in 1..Len(out.val) :
              out.val[i][2] = UnitInFile(FileBody, out.val[i][1])

\* the derived rows the file gives body: none without "derived_data"
DerivedInFile(body) == IF body.derived = Unset THEN <<>> ELSE body.derived.items

\* C19: on a valid RTLightcurve document get_derived_data(model) returns
\* all derived rows of the model and get_derived_data(va, model) exactly
\* those whose viewing_angle equals va, in stored order; neither raises,
\* whether or not the model has "derived_data" and whichever fields its
\* derived rows carry
C19_DerivedRowsAndFilter ==
    (/\ pc = "done" /\ valid
     /\ kind = "rt_lightcurve"
     /\ op.name = "get_derived_data"
     /\ GetModel(models, op.sel).err = NoError) =>
        LET rows == DerivedInFile(FileBody)
            wanted == IF op.filtered
                      THEN SelectSeq(rows,
                                     LAMBDA r : /\ "viewing_angle" \in DOMAIN r
                                                /\ r.viewing_angle = op.value)
                      ELSE rows
        IN  /\ out.err = NoError
            /\ out.val.records = wanted

\* ------------------------------------------------------------------------
\* Properties of get_abundance_data
\* ------------------------------------------------------------------------

\* the table the last get_abundance_data call was given
AbundanceInput ==
    DataOf(kind, data, models, valid, op.sel, op.filtered, op.value).val

\* the sum over the rows of abundance times cell mass
MassWeighted(table, label) ==
    WeightedSum(table.records, label,
                IF "mass" \in table.columns
                THEN [i \in 1..Len(table.records) |-> table.records[i].mass]
                ELSE CellMasses(table.records), 1)

\* C20: get_abundance_data(rows, max_count) takes every column named
\* x<Element><IsotopeNumber> (xHe4 and xC12 alike), ranks them by the sum
\* over the rows of abundance times mass, descending, and returns the first
\* min(max_count, number of such columns) of them in that order, values
\* unchanged; without such a column it returns an empty table.  So for
\* xHe4 = [0.5, 0.1], xC12 = [0.5, 0.9], mass = [1, 2] the top one is xC12
C20_TopAbundances ==
    (pc = "done" /\ op.name = "get_abundance_data") =>
        LET table == AbundanceInput
            labels == {c \in table.columns : HYDRO1D_ABUNDANCE_REGEX(c)}
            n == IF op.max_abundances < Cardinality(labels)
                 THEN op.max_abundances ELSE Cardinality(labels)
        IN  /\ out.err = NoError
            /\ labels = {} => FrameEmpty(out.val)
            /\ (labels # {} /\ Len(table.records) > 0) =>
                  LET got == out.val.order IN
                  /\ Len(got) = n
                  /\ \A i \in 1..Len(got) : got[i] \in labels
                  /\ \A i, j \in 1..Len(got) : i # j => got[i] # got[j]
                  /\ \A i \in 1..Len(got), c \in labels :
                        (c \notin {got[j] : j \in 1..i}) =>
                            MassWeighted(table, got[i]) >= MassWeighted(table, c)
                  /\ \A i \in 1..Len(got), r \in 1..Len(table.records) :
                        out.val.records[r][got[i]] = table.records[r][got[i]]

\* ------------------------------------------------------------------------
\* Properties of normalize_hydro1d_data
\* ------------------------------------------------------------------------

\* the table the last normalize_hydro1d_data call was given
NormalizeInput ==
    DataOf(kind, data, models, valid, op.sel, op.filtered, op.value).val

\* cell is the float value / norm
IsQuotient(cell, value, norm) ==
    IF norm = 0 THEN cell \in {NaN, PosInf, NegInf}
    ELSE /\ cell \notin {NaN, PosInf, NegInf}
         /\ cell.den > 0
         /\ cell.num * norm = value * cell.den

\* C21: normalize_hydro1d_data(rows), for rows with at least one row,
\* returns each of density, pressure, temperature, mass, velocity that is a
\* column with every value divided by the column's maximum, and factors
\* whose keys are exactly those columns, each with the maximum the column
\* had; a column of positive maximum comes back with maximum 1; the other
\* columns (radius, time, abundances) come back unchanged
C21_NormalizedByMaximum ==
    (/\ pc = "done" /\ op.name = "normalize_hydro1d_data"
     /\ Len(NormalizeInput.records) > 0) =>
        LET before == NormalizeInput
            after == out.val.data
            factors == out.val.factors
            rows == 1..Len(before.records)
            present == {NormalizedColumns[i] : i \in 1..Len(NormalizedColumns)}
                       \cap before.columns
            Max(c) == CHOOSE m \in {before.records[r][c] : r \in rows} :
                         \A r \in rows : before.records[r][c] <= m
        IN  /\ out.err = NoError
            /\ {factors[i][1] : i \in 1..Len(factors)} = present
            /\ Len(factors) = Cardinality(present)
            /\ after.columns = before.columns
            /\ Len(after.records) = Len(before.records)
            /\ \A c \in present :
                  /\ DictGet(factors, c) = Max(c)
                  /\ \A r \in rows :
                        IsQuotient(after.records[r][c], before.records[r][c],
                                   Max(c))
                  /\ Max(c) > 0 =>
                        /\ \E r \in rows : after.records[r][c] = [num |-> 1, den |-> 1]
                        /\ \A r \in rows :
                              after.records[r][c].num <= after.records[r][c].den
            /\ \A c \in before.columns \ present, r \in rows :
                  after.records[r][c] = before.records[r][c]

\* density = [1, 2] normalized to [0.5, 1.0] with factor 2, next to a mass
\* column of negative values
C21_Witness ==
    /\ pc = "done" /\ op.name = "normalize_hydro1d_data"
    /\ ~op.filtered
    /\ NormalizeInput.records[1].density = 1
    /\ NormalizeInput.records[2].density = 2
    /\ "mass" \in NormalizeInput.columns
    /\ NormalizeInput.records[2].mass < 0
    /\ out.val.data.records[1].density = [num |-> 1, den |-> 2]
    /\ out.val.data.records[2].density = [num |-> 1, den |-> 1]
    /\ DictGet(out.val.factors, "density") = 2

\* ------------------------------------------------------------------------
\* Selectors that are not a position
\* ------------------------------------------------------------------------

\* C26: _get_model with a negative integer or a boolean selector fails with
\* a selector error and returns no model's name.
C26_NonPositionFails ==
    (pc = "done" /\ (call.type = "bool" \/ (call.type = "int" /\ call.i < 0)))
        => ret.err # NoError

\* ------------------------------------------------------------------------
\* Cell masses derived from the radius
\* ------------------------------------------------------------------------

\* the masses of the concentric shells between r_(i-1) and r_i, in units of
\* 4/3 pi: density_i * (r_i^3 - r_(i-1)^3), the radius before the first
\* row being 0
ShellMasses(records) ==
    [i \in 1..Len(records) |->
       LET r == records[i].radius
           q == IF i = 1 THEN 0 ELSE records[i - 1].radius
       IN  records[i].density * (r * r * r - q * q * q)]

\* the sum over the rows of abundance times shell mass
ShellWeighted(table, label) ==
    WeightedSum(table.records, label, ShellMasses(table.records), 1)

\* C25: on rows without a mass column get_abundance_data ranks the abundance
\* columns by the sum over the rows of abundance_i * density_i *
\* (r_i^3 - r_(i-1)^3): the columns it returns are in descending order of
\* that sum and none it leaves out has a larger sum than one it returns.
C25_ShellMassRanking ==
    (/\ pc = "done" /\ op.name = "get_abundance_data"
     /\ "mass" \notin AbundanceInput.columns /\ out.err = NoError
     /\ ~FrameEmpty(out.val)) =>
        LET table == AbundanceInput
            labels == {c \in table.columns : AbundanceFilterRegex(c)}
            got == out.val.order
        IN  \A i \in 1..Len(got), c \in labels :
               (c \notin {got[j] : j \in 1..i}) =>
                   ShellWeighted(table, got[i]) >= ShellWeighted(table, c)

\* ------------------------------------------------------------------------
\* What accessor calls leave of the document
\* ------------------------------------------------------------------------

\* what get_data(model=sel) with filter f raises or returns in the current
\* state
RowsNow(sel, f) ==
    LET r == DataOf(kind, data, models, valid, sel, f[1], f[2])
    IN  Outcome(r.err, r.val)

\* what get_data(model=sel) with filter f raises or returns after the step
RowsNext(sel, f) ==
    LET r == DataOf(kind', data', models', valid', sel, f[1], f[2])
    IN  Outcome(r.err, r.val)

\* C27 as stated: after construction no accessor call and no change of a
\* returned table changes the file, models, multi_model, valid or the
\* canonical mapping.
C27_DocumentImmutable ==
    [][pc = "done" =>
          UNCHANGED <<kind, text, models, multi_model, valid, data>>]_vars

\* units is the units object before with "(arb. units)" appended for bands
\* of rows that had no unit
SentinelsAdded(before, after, rows) ==
    /\ before # Unset /\ after # Unset
    /\ Len(after.items) >= Len(before.items)
    /\ SubSeq(after.items, 1, Len(before.items)) = before.items
    /\ \A i \in (Len(before.items) + 1)..Len(after.items) :
          /\ after.items[i][1] \in FieldValues(rows, "band")
          /\ ~DictHas(before.items, after.items[i][1])
          /\ after.items[i][2] = "(arb. units)"

\* C27 (amended): after construction every accessor call, failing or not,
\* and every normalization of a returned table leaves the file, models,
\* multi_model and valid as they were; the canonical mapping changes only
\* in a successful RTLightcurve.get_units, and then only in the units of
\* the model asked for, which gain "(arb. units)" for the bands of its rows
\* that had no unit; and no step changes what get_data returns or raises
\* for any selector and filter.
C27_ImmutableButLightcurveUnits ==
    [][pc = "done" =>
          /\ UNCHANGED <<written, kind, text, pc, models, multi_model, valid>>
          /\ data' # data =>
                /\ kind = "rt_lightcurve"
                /\ op'.name = "get_units" /\ out'.err = NoError
                /\ IsDict(data) /\ IsDict(data')
                /\ DictKeys(data'.items) = DictKeys(data.items)
                /\ \A i \in 1..Len(data.items) :
                      LET name == data.items[i][1]
                          old == data.items[i][2]
                          new == data'.items[i][2]
                      IN  IF name # GetModel(models, op'.sel).name
                          THEN new = old
                          ELSE /\ new = [old EXCEPT !.units = new.units]
                               /\ SentinelsAdded(old.units, new.units, old.rows)
                /\ \A sel \in AccessSelectors, f \in Filters :
                      RowsNext(sel, f) = RowsNow(sel, f)]_vars

\* get_data answered after get_units had stored "(arb. units)" in the
\* canonical mapping
C27_Witness ==
    /\ pc = "done" /\ valid /\ kind = "rt_lightcurve"
    /\ data # NewDocument(text, kind).data
    /\ op.name = "get_data" /\ out.err = NoError

\* ------------------------------------------------------------------------
\* The schema of hydro1d rows
\* ------------------------------------------------------------------------

\* the model bodies of the canonical mapping
LoadedBodies == {data.items[i][2] : i \in 1..Len(data.items)}

\* body has a string name and rows, every row with a numeric radius and
\* density
CarriesRadiusAndDensity(body) ==
    /\ body.tag = "object" /\ body.hasName
    /\ Len(body.rows) >= 1
    /\ \A i \in 1..Len(body.rows) :
          /\ {"radius", "density"} \subseteq DOMAIN body.rows[i]
          /\ IsNumber(body.rows[i].radius) /\ IsNumber(body.rows[i].density)

\* the values under keys are numbers in every row that has the key
NumericUnder(body, keys) ==
    \A i \in 1..Len(body.rows) :
       \A key \in DOMAIN body.rows[i] \cap keys : IsNumber(body.rows[i][key])

\* the keys of the rows of body that match the abundance pattern
AbundanceKeys(body) ==
    {key \in UNION {DOMAIN body.rows[i] : i \in 1..Len(body.rows)} :
        HYDRO1D_ABUNDANCE_REGEX(key)}

\* C24: a hydro1d document loads with valid = true whenever every model has
\* a string name and rows that all carry a numeric radius and density, the
\* other fields (pressure, temperature, mass, velocity, time) being optional
\* numbers and the abundance keys numbers; on such a document whose rows
\* omit the time, get_unique_times, get_data and get_units do not fail for
\* a model that exists; and a non-numeric value under an abundance key
\* makes the document invalid.
C24_HydroRowSchema ==
    (pc = "done" /\ kind = "hydro1d" /\ IsDict(data)) =>
        LET optional == {"pressure", "temperature", "mass", "velocity", "time"}
            conforming ==
                \A body \in LoadedBodies :
                   /\ CarriesRadiusAndDensity(body)
                   /\ NumericUnder(body, optional)
                   /\ NumericUnder(body, AbundanceKeys(body))
        IN  /\ conforming => valid
            /\ (/\ conforming
                /\ op.name \in {"get_unique_times", "get_data", "get_units"}
                /\ GetModel(models, op.sel).err = NoError
                /\ \A i \in 1..Len(FileBody.rows) :
                      "time" \notin DOMAIN FileBody.rows[i])
                   => out.err = NoError
            /\ (\E body \in LoadedBodies :
                   body.tag = "object"
                   /\ ~NumericUnder(body, AbundanceKeys(body))) => ~valid

\* ------------------------------------------------------------------------
\* Properties of the nested checks
\* ------------------------------------------------------------------------

\* the last call was a nested check
NestedChecked ==
    op.name \in {"_check_nested_data_dataframe", "_check_nested_data_dict"}

\* the type of the tables the last nested check was to find
TableType ==
    IF op.name = "_check_nested_data_dataframe" THEN "DataFrame" ELSE "dict"

\* the columns the last nested check was to find in every table
RequiredColumns ==
    IF op.name = "_check_nested_data_dataframe" THEN SpectrumColumns ELSE {}

\* v is a list of n lists of tables that have the required columns
NestedShape(v, n) ==
    /\ v.type = "list" /\ Len(v.items) = n
    /\ \A i \in 1..Len(v.items) :
          /\ v.items[i].type = "list"
          /\ \A j \in 1..Len(v.items[i].items) :
                /\ v.items[i].items[j].type = TableType
                /\ RequiredColumns \subseteq v.items[i].items[j].columns

\* C30: whenever _check_nested_data_dataframe or _check_nested_data_dict
\* returns for num_models >= 1, what it returns is a list of exactly
\* num_models lists of tables that all have the required columns; a call
\* that does not return raises TypeError or ValueError.
C30_NestedShape ==
    NestedChecked =>
        IF out.err = NoError THEN NestedShape(out.val, op.num_models)
        ELSE out.err.class \in {"TypeError", "ValueError"}

\* ------------------------------------------------------------------------
\* C28, C29, C23, C22: the writers
\* ------------------------------------------------------------------------

\* the classes of the exceptions with which a lightcurve writer turns its
\* input or the path down
Rejections == {"IOError", "TypeError", "ValueError"}

\* the derived rows the body of model i must carry
DerivedRowsOf(table) ==
    Arr(SchemeRows(table, {"peak_mag", "peak_time", "rise_time",
                           "decline_rate_15", "decline_rate_40", "band",
                           "viewing_angle"}))

\* C28: a lightcurve writer that was given no derived data and did not turn
\* its input down succeeds, and no body it dumps has a derived_data key;
\* given the derived tables, a successful write from tables dumps bodies
\* whose derived_data holds the rows of the derived table restricted to the
\* derived columns of the scheme.
C28_DerivedDataOptional ==
    (written # NoWrite /\ kind = "rt_lightcurve") =>
        /\ (written.args.derived_data = PyNone
            /\ written.err.class \notin Rejections) =>
               /\ written.err = NoError
               /\ \A i \in 1..Len(written.document) :
                     written.document[i][2].derived_data = Unset
        /\ (written.entry = "from_dataframe"
            /\ written.args.derived_data # PyNone
            /\ written.err = NoError) =>
               \A i \in 1..Len(written.document) :
                  written.document[i][2].derived_data
                      = DerivedRowsOf(IF written.args.derived_data.type = "list"
                                      THEN written.args.derived_data.items[i]
                                      ELSE written.args.derived_data)

\* the lengths of the four lists handed to write_rt_lightcurve_from_numpy
ListLengths ==
    {Len(written.args.data.time.items), Len(written.args.data.magnitude.items),
     Len(written.args.data.band.items),
     Len(written.args.data.viewing_angle.items)}

\* C29: write_rt_lightcurve_from_numpy raises ValueError("All data arrays
\* must have the same length") and leaves the path as it was exactly when
\* time, magnitude, band and viewing_angle are not lists of one length.
C29_UnequalLengthsRejected ==
    (written # NoWrite /\ kind = "rt_lightcurve"
     /\ written.entry = "from_numpy") =>
        /\ (Cardinality(ListLengths) > 1) <=> (written.err = DataArraysLengthError)
        /\ (Cardinality(ListLengths) > 1) => text = written.before

\* the columns a table must have for the kind's writer
RequiredOf(k) ==
    IF k = "hydro1d" THEN {"radius", "density"}
    ELSE IF k = "rt_lightcurve"
    THEN {"magnitude", "time", "viewing_angle", "band"}
    ELSE SpectrumColumns

\* the call handed one table with the required columns (of one time, for a
\* spectrum) to from_dataframe, with default names and units, and either no
\* derived data or one derived table
ValidTableWritten ==
    /\ written # NoWrite
    /\ written.entry = "from_dataframe"
    /\ written.args.data.type = "DataFrame"
    /\ Len(written.args.data.items) >= 1
    /\ RequiredOf(kind) \subseteq written.args.data.columns
    /\ kind = "rt_spectrum" =>
          /\ Cardinality({written.args.data.items[i].time :
                            i \in 1..Len(written.args.data.items)}) = 1
          /\ written.args.num_models = 1
    /\ written.args.derived_data \in {PyNone, DerivedTable}
    /\ written.args.model_names = PyNone
    /\ written.args.units = PyNone

\* C23: a writer called on a path that holds a file with overwrite = false
\* raises the IOError and leaves the file as it was; called with overwrite =
\* true on a valid table it replaces the file by the document it dumps; a
\* call that raises leaves the path as it was.
C23_OverwriteGuard ==
    (written # NoWrite /\ pc = "start") =>
        /\ (written.before # NoFile /\ ~written.overwrite) =>
              /\ written.err = FileExistsError
              /\ text = written.before
        /\ (written.overwrite /\ ValidTableWritten) =>
              /\ written.err = NoError
              /\ text = Dumped(written.document).file
        /\ written.err # NoError => text = written.before

\* the tables whose rows get_data must give back: the table written, or for a
\* spectrum the tables of the one model written
TablesWritten ==
    IF written.args.data.type = "DataFrame" THEN <<written.args.data>>
    ELSE written.args.data.items

\* from_dataframe wrote one table, or the spectra of one model, of at least
\* one row each
TableAccepted ==
    /\ written # NoWrite
    /\ written.entry = "from_dataframe"
    /\ written.err = NoError
    /\ \/ written.args.data.type = "DataFrame"
       \/ /\ kind = "rt_spectrum"
          /\ written.args.num_models = 1
          /\ written.args.data.type = "list"
          /\ Len(written.args.data.items) >= 1
          /\ AllOfType(written.args.data.items, "DataFrame")
    /\ \A i \in 1..Len(TablesWritten) : Len(TablesWritten[i].items) >= 1

\* C22: after the kind's writer wrote a table of at least one row, the kind's
\* class loads the file as a valid document, and get_data() gives the rows
\* and columns of the table (for a spectrum: one table per table written, in
\* the order written).
C22_RoundTrip ==
    TableAccepted =>
        /\ pc # "start" => (pc = "done" /\ valid)
        /\ (op.name = "get_data" /\ op.sel = NoneSel /\ ~op.filtered) =>
              /\ out.err = NoError
              /\ IF kind = "rt_spectrum"
                 THEN /\ Len(out.val) = Len(TablesWritten)
                      /\ \A i \in 1..Len(TablesWritten) :
                            out.val[i] = DataFrame(TablesWritten[i].items)
                 ELSE out.val = DataFrame(TablesWritten[1].items)

====
